---- MODULE Spec2Model ----
(***************************************************************************)
(* Policy-table persistence core: SQLPTRepresentation                      *)
(* (src/components/policy/src/sql_pt_representation.cc).                   *)
(*                                                                         *)
(* The relational store is a record of tables; every table is a sequence   *)
(* of rows in insertion order.  A statement of the query catalog is an     *)
(* operator on that record.  A statement can fail (prepare or exec): the   *)
(* input "fault" of an operation names the statement that fails during     *)
(* that operation, or is NoFault.                                          *)
(***************************************************************************)
EXTENDS Integers, Sequences, FiniteSets, TLC

(***************************************************************************)
(* Bounds of the model.                                                    *)
(***************************************************************************)
\* ignition cycles counted before the counter is no longer incremented
MaxCycles == 3
MaxCounter == 2
MaxAttempts == 3

(***************************************************************************)
(* Reserved values.                                                        *)
(***************************************************************************)
NULL == "<NULL>"
\* a fault is <<kind, statement>>, kind "prepare" or "exec"
NoFault == <<"none", "">>
kDefaultId == "default"
kPreDataConsentId == "pre_DataConsent"
kDeviceId == "device"
kRpcAllowed == "kRpcAllowed"
kRpcDisallowed == "kRpcDisallowed"

\* std::map iterates its keys in ascending order
AppOrder == <<"app1", "default", "pre_DataConsent", "zapp">>
GroupOrder == <<"Base-4", "DataConsent-2">>
RpcOrder == <<"Alert", "Show">>
MessageOrder == <<"AppPermissions", "DataConsent">>
LanguageOrder == <<"de-de", "en-us">>
NotificationOrder == <<"EMERGENCY", "NONE", "NORMAL">>
ServiceOrder == <<"0x07">>
DeviceOrder == <<"dev1">>

\* the characters of the group names
Chars ==
  ("Base-4" :> <<66, 97, 115, 101, 45, 52>>) @@
  ("DataConsent-2" :> <<68, 97, 116, 97, 67, 111, 110, 115, 101, 110, 116, 45, 50>>) @@
  ("CREATE a" :> <<67, 82, 69, 65, 84, 69, 32, 97>>) @@
  ("CREATE b" :> <<67, 82, 69, 65, 84, 69, 32, 98>>)

(***************************************************************************)
(* Three-valued presence of the document model: an optional field is       *)
(* [init, v]; a nullable container is [is_null, ...].                      *)
(***************************************************************************)
Set(v) == [init |-> TRUE, v |-> v]
Unset(v) == [init |-> FALSE, v |-> v]

\* the keys of a map, in iteration order
RECURSIVE KeysIn(_, _)
KeysIn(order, m) ==
  IF order = <<>> THEN <<>>
  ELSE (IF Head(order) \in DOMAIN m THEN <<Head(order)>> ELSE <<>>)
       \o KeysIn(Tail(order), m)

EmptyMap == [k \in {} |-> 0]

(***************************************************************************)
(* Enumerations and their json tokens.                                     *)
(***************************************************************************)
HmiLevelToken ==
  [HL_BACKGROUND |-> "BACKGROUND", HL_FULL |-> "FULL",
   HL_LIMITED |-> "LIMITED", HL_NONE |-> "NONE"]
ParameterToken ==
  [P_MAINFIELD1 |-> "mainField1", P_MAINFIELD2 |-> "mainField2"]
PriorityToken ==
  [P_EMERGENCY |-> "EMERGENCY", P_NORMAL |-> "NORMAL", P_NONE |-> "NONE"]
AppHMITypeToken == [AHT_DEFAULT |-> "DEFAULT", AHT_MEDIA |-> "MEDIA"]
RequestTypeToken == [RT_HTTP |-> "HTTP", RT_PROPRIETARY |-> "PROPRIETARY"]

\* the token of an enum value; a value outside the enum has the empty token
EnumToJsonString(table, e) == IF e \in DOMAIN table THEN table[e] ELSE ""

\* [ok, v]: the enum value of a token, ok = FALSE for an unknown token
EnumFromJsonString(table, str) ==
  IF \E e \in DOMAIN table : table[e] = str
  THEN [ok |-> TRUE, v |-> CHOOSE e \in DOMAIN table : table[e] = str]
  ELSE [ok |-> FALSE, v |-> "?"]

(***************************************************************************)
(* The hash of a group name and the id derived from it.                    *)
(***************************************************************************)
\* a 32-bit word is kept as two 16-bit halves [hi, lo]
Half == 2 ^ 16

\* hash * 33 + c in unsigned 32-bit arithmetic
Djb2Step(h, c) ==
  LET lo == h.lo * 33 + c
  IN [hi |-> (h.hi * 33 + lo \div Half) % Half, lo |-> lo % Half]

RECURSIVE Djb2(_, _)
Djb2(hash, cs) ==
  IF cs = <<>> THEN hash
  ELSE Djb2(Djb2Step(hash, Head(cs)), Tail(cs))

\* the 32-bit hash of a string of characters, read as a signed integer
SignedHash(cs) ==
  LET h == Djb2([hi |-> 0, lo |-> 5381], cs)
  IN IF h.hi >= Half \div 2 THEN (h.hi - Half) * Half + h.lo
     ELSE h.hi * Half + h.lo

GenerateHash(name) == SignedHash(Chars[name])

Abs(x) == IF x < 0 THEN 0 - x ELSE x

\* a long int beyond the range of an int, by its sign and the two halves
\* of its magnitude
Long(x) == [neg |-> x < 0, hi |-> Abs(x) \div Half, lo |-> Abs(x) % Half]

\* what abs() of the smallest int, which the language leaves undefined,
\* comes to in a build: the negation wraps to the smallest int, it is
\* made on the widened value, or it traps
AbsBuilds == {"wraps", "widens", "traps"}

\* [trap, id]: abs(x) of an int x assigned to a long int, in a build
AbsOfInt(x, build) ==
  IF x = -2147483647 - 1
  THEN CASE build = "wraps" ->
              [trap |-> FALSE, id |-> [neg |-> TRUE, hi |-> Half \div 2,
                                       lo |-> 0]]
         [] build = "widens" ->
              [trap |-> FALSE, id |-> [neg |-> FALSE, hi |-> Half \div 2,
                                       lo |-> 0]]
         [] OTHER -> [trap |-> TRUE, id |-> Long(0)]
  ELSE [trap |-> FALSE, id |-> Long(Abs(x))]

\* the primary key bound for a functional group
GroupId(name) == Abs(GenerateHash(name))

(***************************************************************************)
(* The store.  kInsertInitData leaves the singleton rows of an empty but   *)
(* valid policy table: module_meta, module_config, the messages version    *)
(* and the device row of application.  The column is_first_run is kept    *)
(* beside module_config: kUpdateModuleConfig does not write it.            *)
(***************************************************************************)
\* a row of application: the columns that are NULL are listed in nulls and
\* read as the zero of their type
ApplicationColumns ==
  {"keep_context", "steal_focus", "default_hmi", "priority_value",
   "is_revoked", "is_default", "is_predata", "memory_kb",
   "heart_beat_timeout_ms", "certificate"}

NullApplicationRow(id) ==
  [id |-> id, keep_context |-> FALSE, steal_focus |-> FALSE,
   default_hmi |-> "", priority_value |-> "", is_revoked |-> FALSE,
   is_default |-> FALSE, is_predata |-> FALSE, memory_kb |-> 0,
   heart_beat_timeout_ms |-> 0, certificate |-> "",
   nulls |-> ApplicationColumns]

ApplicationRowMutNotRevoked(id, priority, revoked, memory, heartbeat, cert) ==
  [NullApplicationRow(id) EXCEPT
     !.priority_value = priority, !.is_revoked = FALSE,
     !.memory_kb = memory, !.heart_beat_timeout_ms = heartbeat,
     !.certificate = cert.v,
     !.nulls = {"keep_context", "steal_focus", "default_hmi"} \cup
               (IF cert.init THEN {} ELSE {"certificate"})]

\* the row kInsertApplication writes: the columns it does not name take
\* the defaults of the schema
ApplicationRow(id, priority, revoked, memory, heartbeat, cert) ==
  [NullApplicationRow(id) EXCEPT
     !.priority_value = priority, !.is_revoked = revoked,
     !.memory_kb = memory, !.heart_beat_timeout_ms = heartbeat,
     !.certificate = cert.v,
     !.nulls = {"keep_context", "steal_focus", "default_hmi"} \cup
               (IF cert.init THEN {} ELSE {"certificate"})]

\* schema is "none" for a store without tables, "empty" once kCreateSchema
\* ran, "seeded" once kInsertInitData ran
SeedDB ==
  [schema |-> "seeded", functional_group |-> <<>>, rpc |-> <<>>, app_group |-> <<>>,
   application |-> <<ApplicationRow(kDeviceId, "NONE", FALSE, 0, 0, Unset(""))>>,
   nickname |-> <<>>, app_type |-> <<>>, request_type |-> <<>>,
   module_config |->
     [preloaded_pt |-> TRUE, exchange_after_x_ignition_cycles |-> 0,
      exchange_after_x_kilometers |-> 0, exchange_after_x_days |-> 0,
      timeout_after_x_seconds |-> 0, vehicle_make |-> NULL,
      vehicle_model |-> NULL, vehicle_year |-> NULL,
      preloaded_date |-> NULL, certificate |-> NULL],
   seconds_between_retry |-> <<>>,
   notifications_by_priority |-> <<>>,
   endpoint |-> <<>>,
   module_meta |->
     [pt_exchanged_at_odometer_x |-> 0,
      pt_exchanged_x_days_after_epoch |-> 0,
      ignition_cycles_since_last_exchange |-> 0,
      flag_update_required |-> FALSE, db_version |-> 0],
   version |-> "0", message |-> <<>>, message_type |-> <<>>,
   language |-> <<>>, device |-> <<>>, app_level |-> <<>>,
   is_first_run |-> FALSE]

\* the result of a step of an operation: its outcome and the store it left
Ok(db) == [ok |-> TRUE, db |-> db]
Failed(db) == [ok |-> FALSE, db |-> db]

PrepareFails(fault, stmt) == fault = <<"prepare", stmt>>
ExecFails(fault, stmt) == fault = <<"exec", stmt>>
StmtFails(fault, stmt) == PrepareFails(fault, stmt) \/ ExecFails(fault, stmt)

\* rows a and b agree on the columns of key
SameKey(key, a, b) == \A c \in key : a[c] = b[c]

\* INSERT OR IGNORE: a row whose key is already stored is not inserted
InsertOrIgnore(table, row, key) ==
  IF \E i \in DOMAIN table : SameKey(key, table[i], row) THEN table
  ELSE Append(table, row)

\* INSERT OR REPLACE: a row whose key is already stored is replaced
InsertOrReplace(table, row, key) ==
  IF \E i \in DOMAIN table : SameKey(key, table[i], row)
  THEN [i \in DOMAIN table |->
          IF SameKey(key, table[i], row) THEN row ELSE table[i]]
  ELSE Append(table, row)

(***************************************************************************)
(* Inserting a sequence of rows, one statement execution per row.  An item *)
(* is [stmt, table, row, mode]: mode "append" adds the row, "ignore" adds   *)
(* it unless a row with its key is stored, "replace" puts it in the place  *)
(* of the stored row with its key, "nothing" is an execution that selects  *)
(* no row to insert.  The rows before the first execution that fails stay  *)
(* written.                                                                *)
(***************************************************************************)
Item(stmt, table, row, mode) ==
  [stmt |-> stmt, table |-> table, row |-> row, mode |-> mode]

\* the unique key of the tables written with "ignore" or "replace"
PrimaryKey ==
  [app_group |-> {"application_id", "functional_group_id"},
   nickname |-> {"application_id", "name"},
   app_type |-> {"application_id", "name"},
   request_type |-> {"application_id", "request_type"},
   notifications_by_priority |-> {"priority_value"},
   message_type |-> {"name"}, language |-> {"code"},
   device |-> {"id"}, app_level |-> {"application_id"},
   application |-> {"id"}]

RECURSIVE ExecInserts(_, _, _)
ExecInserts(db, items, fault) ==
  IF items = <<>> THEN Ok(db)
  ELSE LET it == Head(items)
       IN IF StmtFails(fault, it.stmt) THEN Failed(db)
          ELSE ExecInserts(
                 [db EXCEPT ![it.table] =
                    CASE it.mode = "ignore" ->
                           InsertOrIgnore(@, it.row, PrimaryKey[it.table])
                      [] it.mode = "replace" ->
                           InsertOrReplace(@, it.row, PrimaryKey[it.table])
                      [] it.mode = "append" -> Append(@, it.row)
                      [] OTHER -> @],
                 Tail(items), fault)

RECURSIVE Concat(_)
Concat(ss) == IF ss = <<>> THEN <<>> ELSE Head(ss) \o Concat(Tail(ss))

(***************************************************************************)
(* SaveFunctionalGroupings and SaveRpcs.                                   *)
(***************************************************************************)
\* an rpc without parameters gets no row
RpcItemsMutNoPlainRow(group_id, name, rpc) ==
  LET parameters == rpc.parameters.v
      ForLevel(hmi) ==
        [i \in DOMAIN parameters |->
           Item("kInsertRpcWithParameter", "rpc",
                [name |-> name,
                 hmi_level_value |-> EnumToJsonString(HmiLevelToken, hmi),
                 parameter |-> EnumToJsonString(ParameterToken, parameters[i]),
                 functional_group_id |-> group_id], "append")]
  IN Concat([i \in DOMAIN rpc.hmi_levels |-> ForLevel(rpc.hmi_levels[i])])

\* the rows SaveRpcs executes for one rpc, in execution order
RpcItems(group_id, name, rpc) ==
  LET parameters == rpc.parameters.v
      ForLevel(hmi) ==
        IF parameters # <<>>
        THEN [i \in DOMAIN parameters |->
                Item("kInsertRpcWithParameter", "rpc",
                     [name |-> name,
                      hmi_level_value |-> EnumToJsonString(HmiLevelToken, hmi),
                      parameter |->
                        EnumToJsonString(ParameterToken, parameters[i]),
                      functional_group_id |-> group_id], "append")]
        ELSE <<Item("kInsertRpc", "rpc",
                    [name |-> name,
                     hmi_level_value |-> EnumToJsonString(HmiLevelToken, hmi),
                     parameter |-> NULL,
                     functional_group_id |-> group_id], "append")>>
  IN Concat([i \in DOMAIN rpc.hmi_levels |-> ForLevel(rpc.hmi_levels[i])])

SaveRpcs(db, group_id, rpcs, fault) ==
  IF PrepareFails(fault, "kInsertRpc") \/
     PrepareFails(fault, "kInsertRpcWithParameter")
  THEN Failed(db)
  ELSE LET ForRpc(name) == RpcItems(group_id, name, rpcs.m[name])
           names == KeysIn(RpcOrder, rpcs.m)
       IN ExecInserts(db, Concat([i \in DOMAIN names |-> ForRpc(names[i])]),
                      fault)

FunctionalGroupRow(name, group) ==
  [id |-> GroupId(name), name |-> name,
   user_consent_prompt |->
     IF group.user_consent_prompt.init THEN group.user_consent_prompt.v
     ELSE NULL]

FunctionalGroupRowMutAutoIncrement(db, name, group) ==
  [FunctionalGroupRow(name, group) EXCEPT !.id =
     Len(db.functional_group) + 1]

\* the row bound to kInsertFunctionalGroup for the group called name
BindFunctionalGroup(db, name, group) == FunctionalGroupRow(name, group)

RECURSIVE SaveGroupsLoop(_, _, _, _)
SaveGroupsLoop(db, groups, names, fault) ==
  IF names = <<>> THEN Ok(db)
  ELSE LET name == Head(names)
           row == BindFunctionalGroup(db, name, groups[name])
       IN IF ExecFails(fault, "kInsertFunctionalGroup") THEN Failed(db)
          ELSE LET r == SaveRpcs(
                          [db EXCEPT !.functional_group = Append(@, row)],
                          row.id, groups[name].rpcs, fault)
               IN IF ~r.ok THEN r
                  ELSE SaveGroupsLoop(r.db, groups, Tail(names), fault)

SaveFunctionalGroupings(db, groups, fault) ==
  IF StmtFails(fault, "kDeleteRpc") THEN Failed(db)
  ELSE LET db1 == [db EXCEPT !.rpc = <<>>]
       IN IF StmtFails(fault, "kDeleteFunctionalGroup") THEN Failed(db1)
          ELSE LET db2 == [db1 EXCEPT !.functional_group = <<>>]
               IN IF PrepareFails(fault, "kInsertFunctionalGroup")
                  THEN Failed(db2)
                  ELSE SaveGroupsLoop(db2, groups,
                                      KeysIn(GroupOrder, groups), fault)

(***************************************************************************)
(* Application policies: the statements.                                   *)
(***************************************************************************)
GetString(col) == IF col = NULL THEN "" ELSE col

\* kSelectAppGroups: the names of the groups bound to app_id, in row order
kSelectAppGroups(db, app_id) ==
  LET rows == SelectSeq(db.app_group, LAMBDA r : r.application_id = app_id)
      Name(r) ==
        LET fg == SelectSeq(db.functional_group,
                            LAMBDA g : g.id = r.functional_group_id)
        IN IF fg = <<>> THEN NULL ELSE fg[1].name
  IN [i \in DOMAIN rows |-> Name(rows[i])]

\* kInsertAppGroup binds the application to the id of the group called name
AppGroupItem(db, app_id, name) ==
  LET fg == SelectSeq(db.functional_group, LAMBDA g : g.name = name)
  IN IF fg = <<>>
     THEN Item("kInsertAppGroup", "app_group", <<>>, "nothing")
     ELSE Item("kInsertAppGroup", "app_group",
               [application_id |-> app_id,
                functional_group_id |-> fg[1].id], "ignore")

\* kSelectApplicationFull: the row of an application, all columns NULL
\* when it has no row
kSelectApplicationFull(db, id) ==
  LET rows == SelectSeq(db.application, LAMBDA r : r.id = id)
  IN IF rows = <<>> THEN NullApplicationRow(id) ELSE rows[1]

\* kInsertApplicationFull writes the whole row of an application
kInsertApplicationFull(db, row) ==
  [db EXCEPT !.application = InsertOrReplace(@, row, PrimaryKey.application)]

\* kInsertApplication
kInsertApplication(db, row) ==
  [db EXCEPT !.application = InsertOrIgnore(@, row, PrimaryKey.application)]

\* kUpdateIsDefault
kUpdateIsDefault(db, app_id, is_default) ==
  [db EXCEPT !.application =
     [i \in DOMAIN @ |->
        IF @[i].id = app_id
        THEN [@[i] EXCEPT !.is_default = is_default,
                          !.nulls = @ \ {"is_default"}]
        ELSE @[i]]]

\* kDeleteAppGroupByApplicationId
kDeleteAppGroupByApplicationId(db, app_id) ==
  [db EXCEPT !.app_group =
     SelectSeq(@, LAMBDA r : r.application_id # app_id)]

(***************************************************************************)
(* Application policies: the methods.                                      *)
(***************************************************************************)
\* [ok, v]: the group names of an application
GatherAppGroup(db, app_id, fault) ==
  IF PrepareFails(fault, "kSelectAppGroups") THEN [ok |-> FALSE, v |-> <<>>]
  ELSE LET names == kSelectAppGroups(db, app_id)
       IN [ok |-> TRUE, v |-> [i \in DOMAIN names |-> GetString(names[i])]]

SaveAppGroup(db, app_id, app_groups, fault) ==
  IF PrepareFails(fault, "kInsertAppGroup") THEN Failed(db)
  ELSE ExecInserts(
         db,
         [i \in DOMAIN app_groups |-> AppGroupItem(db, app_id, app_groups[i])],
         fault)

SaveNickname(db, app_id, nicknames, fault) ==
  IF PrepareFails(fault, "kInsertNickname") THEN Failed(db)
  ELSE ExecInserts(
         db,
         [i \in DOMAIN nicknames |->
            Item("kInsertNickname", "nickname",
                 [application_id |-> app_id, name |-> nicknames[i]],
                 "ignore")],
         fault)

SaveAppType(db, app_id, types, fault) ==
  IF PrepareFails(fault, "kInsertAppType") THEN Failed(db)
  ELSE ExecInserts(
         db,
         [i \in DOMAIN types |->
            Item("kInsertAppType", "app_type",
                 [application_id |-> app_id,
                  name |-> EnumToJsonString(AppHMITypeToken, types[i])],
                 "ignore")],
         fault)

SaveRequestType(db, app_id, types, fault) ==
  IF PrepareFails(fault, "kInsertRequestType") THEN Failed(db)
  ELSE ExecInserts(
         db,
         [i \in DOMAIN types |->
            Item("kInsertRequestType", "request_type",
                 [application_id |-> app_id,
                  request_type |->
                    EnumToJsonString(RequestTypeToken, types[i])],
                 "ignore")],
         fault)

SetIsDefault(db, app_id, is_default, fault) ==
  IF StmtFails(fault, "kUpdateIsDefault") THEN Failed(db)
  ELSE Ok(kUpdateIsDefault(db, app_id, is_default))

SetPreloadedMutNoWrite(db, value, fault) == db

\* void: a failure is logged and the flag stays as it is
SetPreloaded(db, value, fault) ==
  IF StmtFails(fault, "kUpdatePreloaded") THEN db
  ELSE [db EXCEPT !.module_config.preloaded_pt = value]

CopyApplication(db, source, destination, fault) ==
  IF StmtFails(fault, "kSelectApplicationFull") THEN Failed(db)
  ELSE IF StmtFails(fault, "kInsertApplicationFull") THEN Failed(db)
  ELSE LET source_app == kSelectApplicationFull(db, source)
       IN Ok(kInsertApplicationFull(
               db,
               [source_app EXCEPT
                  !.id = destination,
                  !.nulls = @ \ {"memory_kb", "heart_beat_timeout_ms"}]))

SetDefaultPolicy(db, app_id, fault) ==
  IF StmtFails(fault, "kDeleteAppGroupByApplicationId") THEN Failed(db)
  ELSE LET r1 == CopyApplication(kDeleteAppGroupByApplicationId(db, app_id),
                                 kDefaultId, app_id, fault)
       IN IF ~r1.ok THEN r1
          ELSE LET db2 == SetPreloaded(r1.db, FALSE, fault)
                   default_groups == GatherAppGroup(db2, kDefaultId, fault)
               IN IF ~default_groups.ok THEN Failed(db2)
                  ELSE LET r3 == SaveAppGroup(db2, app_id,
                                              default_groups.v, fault)
                       IN IF ~r3.ok THEN r3
                          ELSE SetIsDefault(r3.db, app_id, TRUE, fault)

\* the lists of the input are written also for the string "default"
SaveSpecificAppPolicyMutNoDelegate(db, app_id, app, fault) ==
  IF StmtFails(fault, "kInsertApplication") THEN Failed(db)
  ELSE LET db1 == kInsertApplication(
                    db,
                    ApplicationRow(
                      app_id, EnumToJsonString(PriorityToken, app.priority),
                      app.is_null, app.memory_kb.v,
                      app.heart_beat_timeout_ms.v, app.certificate))
           r1 == SaveAppGroup(db1, app_id, app.groups, fault)
       IN IF ~r1.ok THEN r1
          ELSE LET r2 == SaveNickname(r1.db, app_id, app.nicknames.v, fault)
               IN IF ~r2.ok THEN r2
                  ELSE LET r3 == SaveAppType(r2.db, app_id,
                                             app.AppHMIType.v, fault)
                       IN IF ~r3.ok THEN r3
                          ELSE SaveRequestType(r3.db, app_id,
                                               app.RequestType.v, fault)

SaveSpecificAppPolicy(db, app_id, app, fault) ==
  IF StmtFails(fault, "kInsertApplication") THEN Failed(db)
  ELSE LET db1 == kInsertApplication(
                    db,
                    ApplicationRow(
                      app_id, EnumToJsonString(PriorityToken, app.priority),
                      app.is_null, app.memory_kb.v,
                      app.heart_beat_timeout_ms.v, app.certificate))
       IN IF app.predefined_string = kDefaultId
          THEN SetDefaultPolicy(db1, app_id, fault)
          ELSE LET r1 == SaveAppGroup(db1, app_id, app.groups, fault)
               IN IF ~r1.ok THEN r1
                  ELSE LET r2 == SaveNickname(r1.db, app_id,
                                              app.nicknames.v, fault)
                       IN IF ~r2.ok THEN r2
                          ELSE LET r3 == SaveAppType(r2.db, app_id,
                                                     app.AppHMIType.v, fault)
                               IN IF ~r3.ok THEN r3
                                  ELSE SaveRequestType(r3.db, app_id,
                                                       app.RequestType.v,
                                                       fault)

SaveDevicePolicy(db, device, fault) ==
  IF StmtFails(fault, "kInsertApplication") THEN Failed(db)
  ELSE Ok(kInsertApplication(
            db,
            ApplicationRow(kDeviceId,
                           EnumToJsonString(PriorityToken, device.priority),
                           FALSE, 0, 0, Unset(""))))

IsPredefinedApp(app_id) ==
  app_id = kDefaultId \/ app_id = kPreDataConsentId \/ app_id = kDeviceId

AppStep(id) == [kind |-> "app", id |-> id]
DeviceStep == [kind |-> "device", id |-> kDeviceId]

SavePlanMutMapOrder(policies) ==
  <<DeviceStep>> \o
  [i \in DOMAIN KeysIn(AppOrder, policies.apps) |->
     AppStep(KeysIn(AppOrder, policies.apps)[i])]

\* the writes of SaveApplicationPoliciesSection, in the order it makes them
SavePlan(policies) ==
  LET others == SelectSeq(KeysIn(AppOrder, policies.apps),
                          LAMBDA id : ~IsPredefinedApp(id))
  IN (IF kDefaultId \in DOMAIN policies.apps
      THEN <<AppStep(kDefaultId)>> ELSE <<>>)
     \o (IF kPreDataConsentId \in DOMAIN policies.apps
         THEN <<AppStep(kPreDataConsentId)>> ELSE <<>>)
     \o <<DeviceStep>>
     \o [i \in DOMAIN others |-> AppStep(others[i])]

RECURSIVE SavePlanLoop(_, _, _, _)
SavePlanLoop(db, policies, plan, fault) ==
  IF plan = <<>> THEN Ok(db)
  ELSE LET step == Head(plan)
           r == IF step.kind = "device"
                THEN SaveDevicePolicy(db, policies.device, fault)
                ELSE SaveSpecificAppPolicy(db, step.id,
                                           policies.apps[step.id], fault)
       IN IF ~r.ok THEN r
          ELSE SavePlanLoop(r.db, policies, Tail(plan), fault)

SaveApplicationPoliciesSectionMutNoClear(db, policies, fault) ==
  SavePlanLoop(db, policies, SavePlan(policies), fault)

SaveApplicationPoliciesSection(db, policies, fault) ==
  IF StmtFails(fault, "kDeleteAppGroup") THEN Failed(db)
  ELSE LET db1 == [db EXCEPT !.app_group = <<>>]
       IN IF StmtFails(fault, "kDeleteApplication") THEN Failed(db1)
          ELSE LET db2 == [db1 EXCEPT !.application = <<>>]
               IN IF StmtFails(fault, "kDeleteRequestType") THEN Failed(db2)
                  ELSE SavePlanLoop([db2 EXCEPT !.request_type = <<>>],
                                    policies, SavePlan(policies), fault)

(***************************************************************************)
(* SaveModuleConfig and the tables it owns.                                *)
(***************************************************************************)
OrNull(opt) == IF opt.init THEN opt.v ELSE NULL

SaveSecondsBetweenRetries(db, seconds, fault) ==
  IF StmtFails(fault, "kDeleteSecondsBetweenRetries") THEN Failed(db)
  ELSE LET db1 == [db EXCEPT !.seconds_between_retry = <<>>]
       IN IF PrepareFails(fault, "kInsertSecondsBetweenRetry")
          THEN Failed(db1)
          ELSE ExecInserts(
                 db1,
                 [i \in DOMAIN seconds |->
                    Item("kInsertSecondsBetweenRetry",
                         "seconds_between_retry",
                         [index |-> i - 1, value |-> seconds[i]], "append")],
                 fault)

SaveNumberOfNotificationsPerMinute(db, notifications, fault) ==
  IF PrepareFails(fault, "kInsertNotificationsByPriority") THEN Failed(db)
  ELSE LET keys == KeysIn(NotificationOrder, notifications)
       IN ExecInserts(
            db,
            [i \in DOMAIN keys |->
               Item("kInsertNotificationsByPriority",
                    "notifications_by_priority",
                    [priority_value |-> keys[i],
                     value |-> notifications[keys[i]]], "replace")],
            fault)

SaveServiceEndpoints(db, endpoints, fault) ==
  IF StmtFails(fault, "kDeleteEndpoint") THEN Failed(db)
  ELSE LET db1 == [db EXCEPT !.endpoint = <<>>]
           services == KeysIn(ServiceOrder, endpoints)
           ForService(service) ==
             LET apps == endpoints[service]
                 ForApp(app_id) ==
                   [i \in DOMAIN apps[app_id] |->
                      Item("kInsertEndpoint", "endpoint",
                           [service |-> service, url |-> apps[app_id][i],
                            application_id |-> app_id], "append")]
                 ids == KeysIn(AppOrder, apps)
             IN Concat([i \in DOMAIN ids |-> ForApp(ids[i])])
       IN IF PrepareFails(fault, "kInsertEndpoint") THEN Failed(db1)
          ELSE ExecInserts(
                 db1,
                 Concat([i \in DOMAIN services |-> ForService(services[i])]),
                 fault)

SaveModuleConfig(db, config, fault) ==
  IF StmtFails(fault, "kUpdateModuleConfig") THEN Failed(db)
  ELSE LET is_preloaded == config.preloaded_pt.init /\ config.preloaded_pt.v
           db1 ==
             [db EXCEPT !.module_config =
                [preloaded_pt |-> is_preloaded,
                 exchange_after_x_ignition_cycles |->
                   config.exchange_after_x_ignition_cycles,
                 exchange_after_x_kilometers |->
                   config.exchange_after_x_kilometers,
                 exchange_after_x_days |-> config.exchange_after_x_days,
                 timeout_after_x_seconds |-> config.timeout_after_x_seconds,
                 vehicle_make |-> OrNull(config.vehicle_make),
                 vehicle_model |-> OrNull(config.vehicle_model),
                 vehicle_year |-> OrNull(config.vehicle_year),
                 preloaded_date |-> OrNull(config.preloaded_date),
                 certificate |-> OrNull(config.certificate)]]
           r1 == SaveSecondsBetweenRetries(
                   db1, config.seconds_between_retries, fault)
       IN IF ~r1.ok THEN r1
          ELSE LET r2 == SaveNumberOfNotificationsPerMinute(
                           r1.db, config.notifications_per_minute_by_priority,
                           fault)
               IN IF ~r2.ok THEN r2
                  ELSE SaveServiceEndpoints(r2.db, config.endpoints, fault)

(***************************************************************************)
(* SaveConsumerFriendlyMessages, SaveDeviceData, SaveUsageAndErrorCounts,  *)
(* SaveModuleMeta.                                                         *)
(***************************************************************************)
\* the language codes are not inserted
MessageItemsMutNoLanguage(type, message) ==
  <<Item("kInsertMessageType", "message_type", [name |-> type], "ignore")>>

\* SaveMessageType, then SaveLanguage and SaveMessageString per language;
\* SaveMessageString executes nothing
MessageItems(type, message) ==
  LET langs == KeysIn(LanguageOrder, message.languages)
  IN <<Item("kInsertMessageType", "message_type", [name |-> type],
            "ignore")>>
     \o [i \in DOMAIN langs |->
           Item("kInsertLanguage", "language", [code |-> langs[i]],
                "ignore")]

\* the writes made when the input carries a messages container
ReplaceMessages(db, messages, fault) ==
  IF StmtFails(fault, "kDeleteMessageString") THEN Failed(db)
  ELSE LET db1 == [db EXCEPT !.message = <<>>]
       IN IF StmtFails(fault, "kUpdateVersion") THEN Failed(db1)
          ELSE LET types == KeysIn(MessageOrder, messages.messages.v)
                   ForType(type) ==
                     MessageItems(type, messages.messages.v[type])
               IN ExecInserts(
                    [db1 EXCEPT !.version = messages.version],
                    Concat([i \in DOMAIN types |-> ForType(types[i])]),
                    fault)

SaveConsumerFriendlyMessagesMutAlways(db, messages, fault) ==
  ReplaceMessages(db, messages, fault)

SaveConsumerFriendlyMessages(db, messages, fault) ==
  IF messages.messages.init THEN ReplaceMessages(db, messages, fault)
  ELSE Ok(db)

SaveDeviceData(db, devices, fault) ==
  IF PrepareFails(fault, "kInsertDeviceData") THEN Failed(db)
  ELSE LET keys == KeysIn(DeviceOrder, devices)
       IN ExecInserts(
            db,
            [i \in DOMAIN keys |->
               Item("kInsertDeviceData", "device", [id |-> keys[i]],
                    "ignore")],
            fault)

SaveUsageAndErrorCounts(db, counts, fault) ==
  IF StmtFails(fault, "kDeleteAppLevel") THEN Failed(db)
  ELSE LET db1 == [db EXCEPT !.app_level = <<>>]
           keys == KeysIn(AppOrder, counts.app_level)
       IN IF PrepareFails(fault, "kInsertAppLevel") THEN Failed(db1)
          ELSE ExecInserts(
                 db1,
                 [i \in DOMAIN keys |->
                    Item("kInsertAppLevel", "app_level",
                         [application_id |-> keys[i]], "ignore")],
                 fault)

\* the whole row is replaced and the flag falls back to its default
SaveModuleMetaMutReplaceRow(db, meta, fault) ==
  IF StmtFails(fault, "kSaveModuleMeta") THEN Failed(db)
  ELSE Ok([db EXCEPT
             !.module_meta.pt_exchanged_at_odometer_x =
               meta.pt_exchanged_at_odometer_x.v,
             !.module_meta.pt_exchanged_x_days_after_epoch =
               meta.pt_exchanged_x_days_after_epoch.v,
             !.module_meta.ignition_cycles_since_last_exchange =
               meta.ignition_cycles_since_last_exchange.v,
             !.module_meta.flag_update_required = FALSE])

SaveModuleMeta(db, meta, fault) ==
  IF StmtFails(fault, "kSaveModuleMeta") THEN Failed(db)
  ELSE Ok([db EXCEPT
             !.module_meta.pt_exchanged_at_odometer_x =
               meta.pt_exchanged_at_odometer_x.v,
             !.module_meta.pt_exchanged_x_days_after_epoch =
               meta.pt_exchanged_x_days_after_epoch.v,
             !.module_meta.ignition_cycles_since_last_exchange =
               meta.ignition_cycles_since_last_exchange.v])

(***************************************************************************)
(* Save: one transaction around the seven sub-saves.  The log lists the    *)
(* transaction calls and, for every sub-save called, its name and outcome. *)
(***************************************************************************)
BeginTransaction(db) == db
CommitTransaction(before, now) == now
RollbackTransaction(before, now) == before

Call(name, ok) == [name |-> name, ok |-> ok]

\* the module config is saved before the applications
SubSavesMutConfigFirst ==
  <<"SaveFunctionalGroupings", "SaveModuleConfig",
    "SaveApplicationPoliciesSection", "SaveConsumerFriendlyMessages",
    "SaveDeviceData", "SaveUsageAndErrorCounts", "SaveModuleMeta">>

SubSavesMutOrder ==
  <<"SaveApplicationPoliciesSection", "SaveFunctionalGroupings",
    "SaveModuleConfig", "SaveConsumerFriendlyMessages", "SaveDeviceData",
    "SaveUsageAndErrorCounts", "SaveModuleMeta">>

\* the sub-saves in the order Save calls them
SubSaves ==
  <<"SaveFunctionalGroupings", "SaveApplicationPoliciesSection",
    "SaveModuleConfig", "SaveConsumerFriendlyMessages", "SaveDeviceData",
    "SaveUsageAndErrorCounts", "SaveModuleMeta">>

SubSave(name, db, table, fault) ==
  LET pt == table.policy_table
  IN CASE name = "SaveFunctionalGroupings" ->
            SaveFunctionalGroupings(db, pt.functional_groupings, fault)
       [] name = "SaveApplicationPoliciesSection" ->
            SaveApplicationPoliciesSection(db, pt.app_policies_section, fault)
       [] name = "SaveModuleConfig" ->
            SaveModuleConfig(db, pt.module_config, fault)
       [] name = "SaveConsumerFriendlyMessages" ->
            SaveConsumerFriendlyMessages(db, pt.consumer_friendly_messages,
                                         fault)
       [] name = "SaveDeviceData" ->
            SaveDeviceData(db, pt.device_data, fault)
       [] name = "SaveUsageAndErrorCounts" ->
            SaveUsageAndErrorCounts(db, pt.usage_and_error_counts, fault)
       [] name = "SaveModuleMeta" ->
            SaveModuleMeta(db, pt.module_meta, fault)

\* r with the call of one more sub-save, which returned s
Called(r, name, s) ==
  [ok |-> s.ok, db |-> s.db, log |-> Append(r.log, Call(name, s.ok))]

\* [ok, db, log]: the sub-saves called one after the other up to the first
\* that returns false
RECURSIVE SaveSteps(_, _, _, _)
SaveSteps(r, table, names, fault) ==
  IF names = <<>> \/ ~r.ok THEN r
  ELSE SaveSteps(Called(r, Head(names),
                        SubSave(Head(names), r.db, table, fault)),
                 table, Tail(names), fault)

EndTransactionMutNoRollback(before, r) ==
  IF r.ok
  THEN [ok |-> TRUE, db |-> CommitTransaction(before, r.db),
        log |-> Append(r.log, Call("CommitTransaction", TRUE))]
  ELSE [ok |-> FALSE, db |-> r.db, log |-> r.log]

\* commit when every sub-save returned true, rollback otherwise
EndTransaction(before, r) ==
  IF r.ok
  THEN [ok |-> TRUE, db |-> CommitTransaction(before, r.db),
        log |-> Append(r.log, Call("CommitTransaction", TRUE))]
  ELSE [ok |-> FALSE, db |-> RollbackTransaction(before, r.db),
        log |-> Append(r.log, Call("RollbackTransaction", TRUE))]

\* [ok, db, log]: the return value, the store left and the calls made
Save(db, table, fault) ==
  EndTransaction(db,
                 SaveSteps([ok |-> TRUE, db |-> BeginTransaction(db),
                            log |-> <<Call("BeginTransaction", TRUE)>>],
                           table, SubSaves, fault))

(***************************************************************************)
(* Gather: the document read back from the store.                          *)
(***************************************************************************)
InsertUniqueMutPushBack(value, array) == Append(array, value)

\* InsertUnique: value appended unless array holds it
InsertUnique(value, array) ==
  IF \E i \in DOMAIN array : array[i] = value THEN array
  ELSE Append(array, value)

\* an optional array counts as set once it holds an element
OptArray(array) == IF array = <<>> THEN Unset(<<>>) ELSE Set(array)

\* m with key k bound to v
Put(m, k, v) == [x \in DOMAIN m \cup {k} |-> IF x = k THEN v ELSE m[x]]

GatherModuleMeta(db, fault) ==
  IF PrepareFails(fault, "kSelectModuleMeta")
  THEN [pt_exchanged_at_odometer_x |-> Unset(0),
        pt_exchanged_x_days_after_epoch |-> Unset(0),
        ignition_cycles_since_last_exchange |-> Unset(0)]
  ELSE [pt_exchanged_at_odometer_x |->
          Set(db.module_meta.pt_exchanged_at_odometer_x),
        pt_exchanged_x_days_after_epoch |->
          Set(db.module_meta.pt_exchanged_x_days_after_epoch),
        ignition_cycles_since_last_exchange |->
          Set(db.module_meta.ignition_cycles_since_last_exchange)]

\* the endpoints map of the rows, in row order
RECURSIVE EndpointMap(_, _)
EndpointMap(rows, m) ==
  IF rows = <<>> THEN m
  ELSE LET r == Head(rows)
           apps == IF r.service \in DOMAIN m THEN m[r.service] ELSE EmptyMap
           urls == IF r.application_id \in DOMAIN apps
                   THEN apps[r.application_id] ELSE <<>>
       IN EndpointMap(
            Tail(rows),
            Put(m, r.service, Put(apps, r.application_id,
                                  Append(urls, r.url))))

GatherModuleConfig(db, fault) ==
  LET c == db.module_config
      main ==
        IF PrepareFails(fault, "kSelectModuleConfig")
        THEN [preloaded_pt |-> Unset(FALSE),
              exchange_after_x_ignition_cycles |-> 0,
              exchange_after_x_kilometers |-> 0,
              exchange_after_x_days |-> 0, timeout_after_x_seconds |-> 0,
              vehicle_make |-> Unset(""), vehicle_model |-> Unset(""),
              vehicle_year |-> Unset(""), preloaded_date |-> Unset(""),
              certificate |-> Unset("")]
        ELSE [preloaded_pt |-> Set(c.preloaded_pt),
              exchange_after_x_ignition_cycles |->
                c.exchange_after_x_ignition_cycles,
              exchange_after_x_kilometers |-> c.exchange_after_x_kilometers,
              exchange_after_x_days |-> c.exchange_after_x_days,
              timeout_after_x_seconds |-> c.timeout_after_x_seconds,
              vehicle_make |-> Set(GetString(c.vehicle_make)),
              vehicle_model |-> Set(GetString(c.vehicle_model)),
              vehicle_year |-> Set(GetString(c.vehicle_year)),
              preloaded_date |-> Set(GetString(c.preloaded_date)),
              certificate |-> Set(GetString(c.certificate))]
      n == db.notifications_by_priority
      sec == db.seconds_between_retry
  IN main @@
     [endpoints |->
        IF PrepareFails(fault, "kSelectEndpoints") THEN EmptyMap
        ELSE EndpointMap(db.endpoint, EmptyMap),
      notifications_per_minute_by_priority |->
        IF PrepareFails(fault, "kSelectNotificationsPerMin") THEN EmptyMap
        ELSE [k \in {n[i].priority_value : i \in DOMAIN n} |->
                n[CHOOSE i \in DOMAIN n : n[i].priority_value = k].value],
      seconds_between_retries |->
        IF PrepareFails(fault, "kSelectSecondsBetweenRetries") THEN <<>>
        ELSE [i \in DOMAIN sec |-> sec[i].value]]

GatherUsageAndErrorCounts(db, fault) ==
  [app_level |->
     IF PrepareFails(fault, "kSelectAppLevels") THEN EmptyMap
     ELSE [k \in {db.app_level[i].application_id : i \in DOMAIN db.app_level}
             |-> "AppLevel"]]

GatherDeviceData(db, fault) ==
  IF PrepareFails(fault, "kSelectDeviceData") THEN EmptyMap
  ELSE [k \in {db.device[i].id : i \in DOMAIN db.device} |-> "DeviceParams"]

GatherConsumerFriendlyMessages(db, fault) ==
  [version |->
     IF PrepareFails(fault, "kSelectUserMsgsVersion") THEN ""
     ELSE GetString(db.version),
   messages |-> Unset(EmptyMap)]

\* the rpcs map of one group, filled from its rpc rows in row order
RECURSIVE GatherRpcRows(_, _)
GatherRpcRows(rows, m) ==
  IF rows = <<>> THEN m
  ELSE LET r == Head(rows)
           Entry(mm) == IF r.name \in DOMAIN mm THEN mm[r.name]
                        ELSE [hmi_levels |-> <<>>,
                              parameters |-> Unset(<<>>)]
           level == EnumFromJsonString(HmiLevelToken, r.hmi_level_value)
           m1 == IF r.hmi_level_value # NULL /\ level.ok
                 THEN Put(m, r.name,
                          [Entry(m) EXCEPT
                             !.hmi_levels = InsertUnique(level.v, @)])
                 ELSE m
           param == EnumFromJsonString(ParameterToken, r.parameter)
           m2 == IF r.parameter # NULL /\ param.ok
                 THEN Put(m1, r.name,
                          [Entry(m1) EXCEPT
                             !.parameters = Set(InsertUnique(param.v, @.v))])
                 ELSE m1
       IN GatherRpcRows(Tail(rows), m2)

RECURSIVE GatherGroupRows(_, _, _)
GatherGroupRows(db, groups, m) ==
  IF groups = <<>> THEN m
  ELSE LET g == Head(groups)
           rpcs == GatherRpcRows(
                     SelectSeq(db.rpc,
                               LAMBDA r : r.functional_group_id = g.id),
                     EmptyMap)
       IN GatherGroupRows(
            db, Tail(groups),
            Put(m, g.name,
                [user_consent_prompt |->
                   IF g.user_consent_prompt # NULL
                   THEN Set(g.user_consent_prompt) ELSE Unset(""),
                 rpcs |-> [is_null |-> DOMAIN rpcs = {}, m |-> rpcs]]))

\* the rpc rows read last row first
GatherFunctionalGroupingsMutLastFirst(db, fault) ==
  IF PrepareFails(fault, "kSelectFunctionalGroups") \/
     PrepareFails(fault, "kSelectAllRpcs")
  THEN [ok |-> FALSE, v |-> EmptyMap]
  ELSE [ok |-> TRUE,
        v |-> GatherGroupRows(
                [db EXCEPT !.rpc = [i \in DOMAIN @ |-> @[Len(@) + 1 - i]]],
                db.functional_group, EmptyMap)]

\* [ok, v]
GatherFunctionalGroupings(db, fault) ==
  IF PrepareFails(fault, "kSelectFunctionalGroups") \/
     PrepareFails(fault, "kSelectAllRpcs")
  THEN [ok |-> FALSE, v |-> EmptyMap]
  ELSE [ok |-> TRUE, v |-> GatherGroupRows(db, db.functional_group, EmptyMap)]

IsNull(row, col) == col \in row.nulls

IsApplicationRevokedMutNever(db, app_id, fault) == FALSE

IsApplicationRevoked(db, app_id, fault) ==
  LET row == kSelectApplicationFull(db, app_id)
  IN IF StmtFails(fault, "kSelectApplicationRevoked") THEN FALSE
     ELSE IF IsNull(row, "is_revoked") THEN FALSE ELSE row.is_revoked

IsDefaultPolicy(db, app_id, fault) ==
  LET row == kSelectApplicationFull(db, app_id)
  IN IF StmtFails(fault, "kSelectApplicationIsDefault") THEN FALSE
     ELSE IF IsNull(row, "is_default") THEN FALSE ELSE row.is_default

IsPredataPolicy(db, app_id) == FALSE

\* the tokens of an application in a two-column table, in row order
TokensOf(table, col, app_id) ==
  LET rows == SelectSeq(table, LAMBDA r : r.application_id = app_id)
  IN [i \in DOMAIN rows |-> rows[i][col]]

GatherNickName(db, app_id, fault) ==
  IF PrepareFails(fault, "kSelectNicknames") THEN [ok |-> FALSE, v |-> <<>>]
  ELSE [ok |-> TRUE, v |-> TokensOf(db.nickname, "name", app_id)]

\* [ok, v]: false at the first token that is no value of the enum
GatherEnums(table, tokens) ==
  LET conv == [i \in DOMAIN tokens |-> EnumFromJsonString(table, tokens[i])]
  IN IF \E i \in DOMAIN conv : ~conv[i].ok THEN [ok |-> FALSE, v |-> <<>>]
     ELSE [ok |-> TRUE, v |-> [i \in DOMAIN conv |-> conv[i].v]]

GatherAppType(db, app_id, fault) ==
  IF PrepareFails(fault, "kSelectAppTypes") THEN [ok |-> FALSE, v |-> <<>>]
  ELSE GatherEnums(AppHMITypeToken, TokensOf(db.app_type, "name", app_id))

GatherRequestType(db, app_id, fault) ==
  IF PrepareFails(fault, "kSelectRequestTypes")
  THEN [ok |-> FALSE, v |-> <<>>]
  ELSE GatherEnums(RequestTypeToken,
                   TokensOf(db.request_type, "request_type", app_id))

\* a default-constructed Nullable<ApplicationParams>
FreshParams ==
  [is_null |-> FALSE, predefined_string |-> "", priority |-> "?",
   memory_kb |-> Unset(0), heart_beat_timeout_ms |-> Unset(0),
   certificate |-> Unset(""), groups |-> <<>>, nicknames |-> Unset(<<>>),
   AppHMIType |-> Unset(<<>>), RequestType |-> Unset(<<>>)]

EntryOf(apps, app_id) ==
  IF app_id \in DOMAIN apps THEN apps[app_id] ELSE FreshParams

\* apps[app_id].set_to_string(str)
SetToString(apps, app_id, str) ==
  Put(apps, app_id, [EntryOf(apps, app_id) EXCEPT !.predefined_string = str])

AssignParamsMutDropString(apps, app_id, params) == Put(apps, app_id, params)

\* apps[app_id] = params: the entry takes the value of params and keeps
\* the string it was set to
AssignParams(apps, app_id, params) ==
  Put(apps, app_id,
      [params EXCEPT
         !.predefined_string = EntryOf(apps, app_id).predefined_string])

\* acc is [ok, apps, device]; the loop ends at the first helper select
\* that returns false
RECURSIVE GatherAppRows(_, _, _, _)
GatherAppRows(db, rows, acc, fault) ==
  IF rows = <<>> THEN acc
  ELSE
    LET row == Head(rows)
        app_id == row.id
        apps1 == IF IsDefaultPolicy(db, app_id, fault)
                 THEN SetToString(acc.apps, app_id, kDefaultId)
                 ELSE acc.apps
        apps2 == IF IsPredataPolicy(db, app_id)
                 THEN SetToString(apps1, app_id, kPreDataConsentId)
                 ELSE apps1
        priority == EnumFromJsonString(PriorityToken, row.priority_value).v
        groups == GatherAppGroup(db, app_id, fault)
        nicknames == GatherNickName(db, app_id, fault)
        types == GatherAppType(db, app_id, fault)
        requests == GatherRequestType(db, app_id, fault)
        params ==
          [FreshParams EXCEPT
             !.priority = priority,
             !.memory_kb = Set(row.memory_kb),
             !.heart_beat_timeout_ms = Set(row.heart_beat_timeout_ms),
             !.certificate = IF ~IsNull(row, "heart_beat_timeout_ms")
                             THEN Set(row.certificate) ELSE Unset(""),
             !.groups = groups.v,
             !.nicknames = OptArray(nicknames.v),
             !.AppHMIType = OptArray(types.v),
             !.RequestType = OptArray(requests.v)]
    IN IF IsApplicationRevoked(db, app_id, fault)
       THEN GatherAppRows(
              db, Tail(rows),
              [acc EXCEPT
                 !.apps = AssignParams(acc.apps, app_id,
                                       [FreshParams EXCEPT !.is_null = TRUE])],
              fault)
       ELSE IF app_id = kDeviceId
       THEN GatherAppRows(
              db, Tail(rows),
              [acc EXCEPT !.apps = apps2,
                          !.device = [priority |-> priority]],
              fault)
       ELSE IF ~groups.ok \/ ~nicknames.ok \/ ~types.ok \/ ~requests.ok
       THEN [acc EXCEPT !.ok = FALSE, !.apps = apps2]
       ELSE GatherAppRows(
              db, Tail(rows),
              [acc EXCEPT !.apps = AssignParams(apps2, app_id, params)],
              fault)

\* [ok, apps, device]
GatherApplicationPoliciesSection(db, fault) ==
  LET empty == [ok |-> TRUE, apps |-> EmptyMap,
                device |-> [priority |-> "?"]]
  IN IF PrepareFails(fault, "kSelectAppPolicies")
     THEN [empty EXCEPT !.ok = FALSE]
     ELSE GatherAppRows(db, db.application, empty, fault)

\* the document of the store
GenerateSnapshot(db, fault) ==
  LET apps == GatherApplicationPoliciesSection(db, fault)
  IN [policy_table |->
        [module_meta |-> GatherModuleMeta(db, fault),
         module_config |-> GatherModuleConfig(db, fault),
         usage_and_error_counts |-> GatherUsageAndErrorCounts(db, fault),
         device_data |-> GatherDeviceData(db, fault),
         functional_groupings |-> GatherFunctionalGroupings(db, fault).v,
         consumer_friendly_messages |->
           GatherConsumerFriendlyMessages(db, fault),
         app_policies_section |->
           [apps |-> apps.apps, device |-> apps.device]]]

\* the Gather* calls of GenerateSnapshot, in call order
GatherCalls ==
  <<"GatherModuleMeta", "GatherModuleConfig", "GatherUsageAndErrorCounts",
    "GatherDeviceData", "GatherFunctionalGroupings",
    "GatherConsumerFriendlyMessages", "GatherApplicationPoliciesSection">>

\* the calls up to the first that returns false
GenerateSnapshotCallsMutStop(db, fault) ==
  LET ok == [i \in DOMAIN GatherCalls |->
               CASE GatherCalls[i] = "GatherFunctionalGroupings" ->
                      GatherFunctionalGroupings(db, fault).ok
                 [] GatherCalls[i] = "GatherConsumerFriendlyMessages" ->
                      ~PrepareFails(fault, "kSelectUserMsgsVersion")
                 [] GatherCalls[i] = "GatherApplicationPoliciesSection" ->
                      GatherApplicationPoliciesSection(db, fault).ok
                 [] OTHER -> TRUE]
      n == CHOOSE k \in DOMAIN GatherCalls :
             /\ \A i \in 1 .. k - 1 : ok[i]
             /\ ~ok[k] \/ k = Len(GatherCalls)
  IN [i \in 1 .. n |-> [call |-> GatherCalls[i], ok |-> ok[i]]]

\* the calls GenerateSnapshot makes, each with the value it returns (true
\* for a void call); no return value is tested
GenerateSnapshotCalls(db, fault) ==
  [i \in DOMAIN GatherCalls |->
     [call |-> GatherCalls[i],
      ok |-> CASE GatherCalls[i] = "GatherFunctionalGroupings" ->
                    GatherFunctionalGroupings(db, fault).ok
               [] GatherCalls[i] = "GatherConsumerFriendlyMessages" ->
                    ~PrepareFails(fault, "kSelectUserMsgsVersion")
               [] GatherCalls[i] = "GatherApplicationPoliciesSection" ->
                    GatherApplicationPoliciesSection(db, fault).ok
               [] OTHER -> TRUE]]

\* is the part of the document that the rows of select fill initialized
\* after GenerateSnapshot: a part is initialized by an assignment to it or
\* by mark_initialized()
IsInitialized(select, db, fault) ==
  CASE select \in {"kSelectModuleMeta", "kSelectModuleConfig",
                   "kSelectUserMsgsVersion"} -> ~PrepareFails(fault, select)
    [] select = "kSelectEndpoints" ->
         ~PrepareFails(fault, select) /\ db.endpoint # <<>>
    [] select = "kSelectNotificationsPerMin" ->
         ~PrepareFails(fault, select) /\ db.notifications_by_priority # <<>>
    [] select = "kSelectSecondsBetweenRetries" ->
         ~PrepareFails(fault, select) /\ db.seconds_between_retry # <<>>
    [] select = "kSelectAppLevels" ->
         ~PrepareFails(fault, select) /\ db.app_level # <<>>
    [] select = "kSelectDeviceData" -> TRUE
    [] select \in {"kSelectFunctionalGroups", "kSelectAllRpcs"} ->
         GatherFunctionalGroupings(db, fault).v # EmptyMap
    [] select = "kSelectAppPolicies" ->
         ~PrepareFails(fault, select) /\ db.application # <<>>

(***************************************************************************)
(* Decision engine.                                                        *)
(***************************************************************************)
\* kSelectRpc: the parameter column of the rpc rows called rpc at hmi_level
\* in a group bound to app_id, in row order
kSelectRpc(db, app_id, hmi_level, rpc) ==
  LET rows ==
        SelectSeq(db.rpc,
                  LAMBDA r :
                    /\ r.name = rpc
                    /\ r.hmi_level_value = hmi_level
                    /\ \E i \in DOMAIN db.app_group :
                         /\ db.app_group[i].application_id = app_id
                         /\ db.app_group[i].functional_group_id =
                              r.functional_group_id)
  IN [i \in DOMAIN rows |-> rows[i].parameter]

AllowedParamsMutKeepNull(rows) == rows

\* the parameters CheckPermissions appends for the rows of its select
AllowedParams(rows) == SelectSeq(rows, LAMBDA p : p # NULL)

\* a select that cannot be prepared answers "disallowed"
CheckPermissionsMutResetOnFail(db, app_id, hmi_level, rpc, result, fault) ==
  IF PrepareFails(fault, "kSelectRpc")
  THEN [hmi_level_permitted |-> kRpcDisallowed, list_of_allowed_params |-> <<>>]
  ELSE LET rows == kSelectRpc(db, app_id, hmi_level, rpc)
       IN [hmi_level_permitted |->
             IF rows # <<>> THEN kRpcAllowed ELSE kRpcDisallowed,
           list_of_allowed_params |->
             result.list_of_allowed_params \o AllowedParams(rows)]

CheckPermissionsMutInverted(db, app_id, hmi_level, rpc, result, fault) ==
  IF PrepareFails(fault, "kSelectRpc") THEN result
  ELSE LET rows == kSelectRpc(db, app_id, hmi_level, rpc)
       IN [hmi_level_permitted |->
             IF rows # <<>> THEN kRpcDisallowed ELSE kRpcAllowed,
           list_of_allowed_params |->
             result.list_of_allowed_params \o AllowedParams(rows)]

CheckPermissions(db, app_id, hmi_level, rpc, result, fault) ==
  IF PrepareFails(fault, "kSelectRpc") THEN result
  ELSE LET rows == kSelectRpc(db, app_id, hmi_level, rpc)
       IN [hmi_level_permitted |->
             IF rows # <<>> THEN kRpcAllowed ELSE kRpcDisallowed,
           list_of_allowed_params |->
             result.list_of_allowed_params \o AllowedParams(rows)]

IgnitionCyclesBeforeExchangeMutNoExceedTest(db, fault) ==
  IF StmtFails(fault, "kSelectIgnitionCycles") THEN 0
  ELSE LET limit == db.module_config.exchange_after_x_ignition_cycles
           current == db.module_meta.ignition_cycles_since_last_exchange
       IN IF limit < 0 \/ current < 0 THEN 0
          ELSE limit - current

IgnitionCyclesBeforeExchange(db, fault) ==
  IF StmtFails(fault, "kSelectIgnitionCycles") THEN 0
  ELSE LET limit == db.module_config.exchange_after_x_ignition_cycles
           current == db.module_meta.ignition_cycles_since_last_exchange
       IN IF limit < 0 \/ current < 0 \/ current > limit THEN 0
          ELSE limit - current

\* kIncrementIgnitionCycles
kIncrementIgnitionCycles(db) ==
  [db EXCEPT !.module_meta.ignition_cycles_since_last_exchange = @ + 1]

\* kResetIgnitionCycles
kResetIgnitionCycles(db) ==
  [db EXCEPT !.module_meta.ignition_cycles_since_last_exchange = 0]

IncrementIgnitionCyclesMutDecrement(db, fault) ==
  IF StmtFails(fault, "kIncrementIgnitionCycles") THEN db
  ELSE [db EXCEPT !.module_meta.ignition_cycles_since_last_exchange =
          IF @ > 0 THEN @ - 1 ELSE @]

IncrementIgnitionCycles(db, fault) ==
  IF StmtFails(fault, "kIncrementIgnitionCycles") THEN db
  ELSE kIncrementIgnitionCycles(db)

ResetIgnitionCycles(db, fault) ==
  IF StmtFails(fault, "kResetIgnitionCycles") THEN db
  ELSE kResetIgnitionCycles(db)

\* [ok, db]: kUpdateCountersSuccessfulUpdate writes both counters
SetCountersPassedForSuccessfulUpdate(db, kilometers, days_after_epoch, fault) ==
  IF StmtFails(fault, "kUpdateCountersSuccessfulUpdate") THEN Failed(db)
  ELSE Ok([db EXCEPT
             !.module_meta.pt_exchanged_at_odometer_x = kilometers,
             !.module_meta.pt_exchanged_x_days_after_epoch =
               days_after_epoch])

\* the distance driven is not compared with the limit
KilometersBeforeExchangeMutNoExceedTest(db, current, fault) ==
  IF StmtFails(fault, "kSelectKilometers") THEN 0
  ELSE LET limit == db.module_config.exchange_after_x_kilometers
           last_ == db.module_meta.pt_exchanged_at_odometer_x
       IN IF limit < 0 \/ last_ < 0 \/ current < 0 \/ current < last_
          THEN 0
          ELSE limit - (current - last_)

KilometersBeforeExchangeMutNoLast(db, current, fault) ==
  IF StmtFails(fault, "kSelectKilometers") THEN 0
  ELSE LET limit == db.module_config.exchange_after_x_kilometers
       IN IF limit < 0 \/ current < 0 \/ limit < current THEN 0
          ELSE limit - current

\* the subtractions are reached with 0 <= last <= current and
\* current - last <= limit only, where an int does not overflow
KilometersBeforeExchange(db, current, fault) ==
  IF StmtFails(fault, "kSelectKilometers") THEN 0
  ELSE LET limit == db.module_config.exchange_after_x_kilometers
           last_ == db.module_meta.pt_exchanged_at_odometer_x
       IN IF limit < 0 \/ last_ < 0 \/ current < 0 \/ current < last_
             \/ limit < (current - last_)
          THEN 0
          ELSE limit - (current - last_)

DaysBeforeExchangeMutNoShortCircuit(db, current, fault) ==
  IF StmtFails(fault, "kSelectDays") THEN 0
  ELSE LET limit == db.module_config.exchange_after_x_days
           last_ == db.module_meta.pt_exchanged_x_days_after_epoch
       IN IF limit < 0 \/ last_ < 0 \/ current < 0 \/ current < last_
             \/ limit < (current - last_)
          THEN 0
          ELSE limit - (current - last_)

DaysBeforeExchange(db, current, fault) ==
  IF StmtFails(fault, "kSelectDays") THEN 0
  ELSE LET limit == db.module_config.exchange_after_x_days
           last_ == db.module_meta.pt_exchanged_x_days_after_epoch
       IN IF 0 = last_ THEN limit
          ELSE IF limit < 0 \/ last_ < 0 \/ current < 0 \/ current < last_
                  \/ limit < (current - last_)
          THEN 0
          ELSE limit - (current - last_)

TimeoutResponse(db, fault) ==
  IF StmtFails(fault, "kSelectTimeoutResponse") THEN 30
  ELSE db.module_config.timeout_after_x_seconds

\* [ok, priority]: priority is what the caller's string holds after the
\* call, NULL for a call without a string; a NULL column and an
\* application without a row clear the string
GetPriority(db, policy_app_id, priority, fault) ==
  IF priority = NULL THEN [ok |-> FALSE, priority |-> NULL]
  ELSE IF StmtFails(fault, "kSelectPriority")
  THEN [ok |-> FALSE, priority |-> priority]
  ELSE LET rows == SelectSeq(db.application,
                             LAMBDA r : r.id = policy_app_id)
       IN IF rows = <<>> \/ "priority_value" \in rows[1].nulls
          THEN [ok |-> TRUE, priority |-> ""]
          ELSE [ok |-> TRUE, priority |-> rows[1].priority_value]

UpdateRequired(db, fault) ==
  IF StmtFails(fault, "kSelectFlagUpdateRequired") THEN FALSE
  ELSE db.module_meta.flag_update_required

\* the failure of the update is logged and the flag keeps its value
SaveUpdateRequired(db, value, fault) ==
  IF StmtFails(fault, "kUpdateFlagUpdateRequired") THEN db
  ELSE [db EXCEPT !.module_meta.flag_update_required = value]

\* the store without its rows
NoRows(schema) == [SeedDB EXCEPT !.schema = schema, !.application = <<>>]

\* the result of an operation with the statements it executed, in order,
\* the failing one included
Ran(r, stmts) == [ok |-> r.ok, db |-> r.db, stmts |-> stmts]

\* [ok, db, stmts]
RefreshDB(db, fault) ==
  IF StmtFails(fault, "kDropSchema") THEN Ran(Failed(db), <<"kDropSchema">>)
  ELSE IF StmtFails(fault, "kCreateSchema")
  THEN Ran(Failed(NoRows("none")), <<"kDropSchema", "kCreateSchema">>)
  ELSE IF StmtFails(fault, "kInsertInitData")
  THEN Ran(Failed(NoRows("empty")),
           <<"kDropSchema", "kCreateSchema", "kInsertInitData">>)
  ELSE Ran(Ok(SeedDB), <<"kDropSchema", "kCreateSchema", "kInsertInitData">>)

\* DELETE FROM every table: the tables stay, without a row
kDeleteData(db) == NoRows("empty")

\* the rows are deleted and the seed is not inserted
ClearMutNoSeed(db, fault) ==
  IF StmtFails(fault, "kDeleteData") THEN Ran(Failed(db), <<"kDeleteData">>)
  ELSE Ran(Ok(kDeleteData(db)), <<"kDeleteData">>)

\* [ok, db, stmts], on a store that has its tables
Clear(db, fault) ==
  IF StmtFails(fault, "kDeleteData") THEN Ran(Failed(db), <<"kDeleteData">>)
  ELSE IF StmtFails(fault, "kInsertInitData")
  THEN Ran(Failed(kDeleteData(db)), <<"kDeleteData", "kInsertInitData">>)
  ELSE Ran(Ok(SeedDB), <<"kDeleteData", "kInsertInitData">>)

(***************************************************************************)
(* Init and the version of the schema.  A call of Init is given with what  *)
(* the file and the driver answer during it: attempts is                   *)
(* attempts_to_open_policy_db, opens[1] the outcome of the first Open,     *)
(* opens[i + 1] that of the i-th retry, integrity the rows of              *)
(* kCheckDBIntegrity.                                                      *)
(***************************************************************************)
\* the DDL text of this build, and the one of an earlier build
kCreateSchemaText == "CREATE b"
EarlierSchemaText == "CREATE a"

GetDBVersion == GenerateHash(kCreateSchemaText)

IsDBVersionActualMutAlways(db, fault) == TRUE

IsDBVersionActual(db, fault) ==
  IF StmtFails(fault, "kSelectDBVersion") THEN FALSE
  ELSE GetDBVersion = db.module_meta.db_version

\* [ok, db]
UpdateDBVersion(db, fault) ==
  IF StmtFails(fault, "kUpdateDBVersion") THEN Failed(db)
  ELSE Ok([db EXCEPT !.module_meta.db_version = GetDBVersion])

kCreateSchemaMutNothing(db) == db

\* CREATE TABLE IF NOT EXISTS: a schema that exists is left as it is
kCreateSchema(db) == IF db.schema = "none" THEN NoRows("empty") ELSE db

kInsertInitDataMutVersion(db) ==
  IF db.schema = "empty"
  THEN [SeedDB EXCEPT !.module_meta.db_version = GetDBVersion]
  ELSE db

\* INSERT OR IGNORE: the rows that exist are left as they are
kInsertInitData(db) == IF db.schema = "empty" THEN SeedDB ELSE db

kIsFirstRunMutNoRow(db, fault) == ~StmtFails(fault, "kIsFirstRun")

\* Prepare, Next and GetBoolean(0) of kIsFirstRun: a store without the row
\* has no first run to report
kIsFirstRun(db, fault) ==
  /\ ~StmtFails(fault, "kIsFirstRun")
  /\ db.schema = "seeded"
  /\ db.is_first_run

RECURSIVE OpenRetriesMutOneLess(_, _, _)
OpenRetriesMutOneLess(opens, attempts, i) ==
  IF ~(i + 1 < attempts) THEN [is_opened |-> FALSE, open_counter |-> i]
  ELSE IF opens[i + 2] THEN [is_opened |-> TRUE, open_counter |-> i + 1]
  ELSE OpenRetriesMutOneLess(opens, attempts, i + 1)

\* the retry loop from its i-th round on: [is_opened, open_counter], the
\* counter being the number of retries made (open_counter_ of test builds)
RECURSIVE OpenRetries(_, _, _)
OpenRetries(opens, attempts, i) ==
  IF ~(i < attempts) THEN [is_opened |-> FALSE, open_counter |-> i]
  ELSE IF opens[i + 2] THEN [is_opened |-> TRUE, open_counter |-> i + 1]
  ELSE OpenRetries(opens, attempts, i + 1)

\* the sleep is asked for in milliseconds
RECURSIVE OpenSleepsMutMs(_, _, _, _)
OpenSleepsMutMs(opens, attempts, open_attempt_timeout_ms, i) ==
  IF ~(i < attempts) THEN <<>>
  ELSE <<open_attempt_timeout_ms>>
       \o (IF opens[i + 2] THEN <<>>
           ELSE OpenSleepsMutMs(opens, attempts, open_attempt_timeout_ms,
                                i + 1))

\* the arguments of threads::sleep in the retry loop from its i-th round
\* on; a uint16_t times 1000 is computed as an int and is below 2^31
RECURSIVE OpenSleeps(_, _, _, _)
OpenSleeps(opens, attempts, open_attempt_timeout_ms, i) ==
  IF ~(i < attempts) THEN <<>>
  ELSE <<open_attempt_timeout_ms * 1000>>
       \o (IF opens[i + 2] THEN <<>>
           ELSE OpenSleeps(opens, attempts, open_attempt_timeout_ms, i + 1))

kSetNotFirstRunMutKeep(db) == db

\* UPDATE of the first-run flag
kSetNotFirstRun(db) == [db EXCEPT !.is_first_run = FALSE]

\* a row of the integrity check that is not "ok" leaves the loop, and the
\* schema is created and seeded over the store
InitOpenedMutRecreate(db, c) ==
  IF ~c.read_write THEN [result |-> "FAIL", db |-> db, stmts |-> <<>>]
  ELSE
  LET has_pages == ~StmtFails(c.fault, "kCheckPgNumber") /\ db.schema # "none"
      checks == IF has_pages THEN <<"kCheckPgNumber", "kCheckDBIntegrity">>
                ELSE <<"kCheckPgNumber">>
  IN IF /\ has_pages
        /\ ~PrepareFails(c.fault, "kCheckDBIntegrity")
        /\ c.integrity # <<>>
        /\ Head(c.integrity) = "ok"
     THEN IF kIsFirstRun(db, c.fault)
          THEN [result |-> "SUCCESS",
                db |-> IF StmtFails(c.fault, "kSetNotFirstRun") THEN db
                       ELSE kSetNotFirstRun(db),
                stmts |-> checks \o <<"kIsFirstRun", "kSetNotFirstRun">>]
          ELSE [result |-> "EXISTS", db |-> db,
                stmts |-> checks \o <<"kIsFirstRun">>]
     ELSE IF StmtFails(c.fault, "kCreateSchema")
     THEN [result |-> "FAIL", db |-> db,
           stmts |-> checks \o <<"kCreateSchema">>]
     ELSE IF StmtFails(c.fault, "kInsertInitData")
     THEN [result |-> "FAIL", db |-> kCreateSchema(db),
           stmts |-> checks \o <<"kCreateSchema", "kInsertInitData">>]
     ELSE [result |-> "SUCCESS", db |-> kInsertInitData(kCreateSchema(db)),
           stmts |-> checks \o <<"kCreateSchema", "kInsertInitData">>]

\* Init once the store is open: [result, db, stmts], in a build that tests
\* IsReadWrite (every build but the QNX one).  A file never written has
\* no page; the verdict on a file with pages is returned in the first
\* round of the loop over the rows of kCheckDBIntegrity.  stmts are the
\* statements prepared or executed, in order, failing ones included.
InitOpened(db, c) ==
  IF ~c.read_write THEN [result |-> "FAIL", db |-> db, stmts |-> <<>>]
  ELSE
  LET has_pages == ~StmtFails(c.fault, "kCheckPgNumber") /\ db.schema # "none"
      checks == IF has_pages THEN <<"kCheckPgNumber", "kCheckDBIntegrity">>
                ELSE <<"kCheckPgNumber">>
  IN IF /\ has_pages
        /\ ~PrepareFails(c.fault, "kCheckDBIntegrity")
        /\ c.integrity # <<>>
     THEN IF Head(c.integrity) = "ok"
          THEN IF kIsFirstRun(db, c.fault)
               THEN [result |-> "SUCCESS",
                     db |-> IF StmtFails(c.fault, "kSetNotFirstRun") THEN db
                            ELSE kSetNotFirstRun(db),
                     stmts |-> checks \o <<"kIsFirstRun", "kSetNotFirstRun">>]
               ELSE [result |-> "EXISTS", db |-> db,
                     stmts |-> checks \o <<"kIsFirstRun">>]
          ELSE [result |-> "FAIL", db |-> db, stmts |-> checks]
     ELSE IF StmtFails(c.fault, "kCreateSchema")
     THEN [result |-> "FAIL", db |-> db,
           stmts |-> checks \o <<"kCreateSchema">>]
     ELSE IF StmtFails(c.fault, "kInsertInitData")
     THEN [result |-> "FAIL", db |-> kCreateSchema(db),
           stmts |-> checks \o <<"kCreateSchema", "kInsertInitData">>]
     ELSE [result |-> "SUCCESS", db |-> kInsertInitData(kCreateSchema(db)),
           stmts |-> checks \o <<"kCreateSchema", "kInsertInitData">>]

\* the test of IsReadWrite left out
SQLPTInitMutNoReadWrite(db, c) ==
  LET o == IF c.opens[1] THEN [is_opened |-> TRUE, open_counter |-> 0]
           ELSE OpenRetries(c.opens, c.attempts, 0)
      r == IF o.is_opened THEN InitOpened(db, [c EXCEPT !.read_write = TRUE])
           ELSE [result |-> "FAIL", db |-> db, stmts |-> <<>>]
  IN [result |-> r.result, db |-> r.db, open_counter |-> o.open_counter,
      stmts |-> r.stmts,
      sleeps |-> IF c.opens[1] THEN <<>>
                 ELSE OpenSleeps(c.opens, c.attempts,
                                 c.open_attempt_timeout_ms, 0)]

\* [result, db, open_counter, stmts, sleeps]
SQLPTInit(db, c) ==
  \* SQLPTRepresentation::Init
  LET o == IF c.opens[1] THEN [is_opened |-> TRUE, open_counter |-> 0]
           ELSE OpenRetries(c.opens, c.attempts, 0)
      r == IF o.is_opened THEN InitOpened(db, c)
           ELSE [result |-> "FAIL", db |-> db, stmts |-> <<>>]
  IN [result |-> r.result, db |-> r.db, open_counter |-> o.open_counter,
      stmts |-> r.stmts,
      sleeps |-> IF c.opens[1] THEN <<>>
                 ELSE OpenSleeps(c.opens, c.attempts,
                                 c.open_attempt_timeout_ms, 0)]

(***************************************************************************)
(* The documents given to Save.  A document names only groups it defines;  *)
(* an application inherits "default" only in a document that defines the   *)
(* default application.                                                    *)
(***************************************************************************)
Rpc(levels, parameters) ==
  [hmi_levels |-> levels, parameters |-> OptArray(parameters)]

Group(prompt, rpcs) ==
  [user_consent_prompt |-> prompt,
   rpcs |-> [is_null |-> DOMAIN rpcs = {}, m |-> rpcs]]

OneGroup ==
  "Base-4" :> Group(Unset(""),
                    "Show" :> Rpc(<<"HL_FULL">>, <<"P_MAINFIELD1">>))

\* Show is granted with a parameter by one group and without by the other;
\* Alert is granted with the same parameter by both
TwoGroups ==
  ("Base-4" :>
     Group(Unset(""),
           ("Show" :> Rpc(<<"HL_FULL", "HL_NONE">>, <<"P_MAINFIELD1">>)) @@
           ("Alert" :> Rpc(<<"HL_FULL">>,
                           <<"P_MAINFIELD2", "P_MAINFIELD1">>)))) @@
  ("DataConsent-2" :>
     Group(Set("DataConsent"),
           ("Show" :> Rpc(<<"HL_FULL">>, <<>>)) @@
           ("Alert" :> Rpc(<<"HL_FULL">>, <<"P_MAINFIELD1">>))))

EmptyGroup == "Base-4" :> Group(Unset(""), EmptyMap)

Params(priority, groups, nicknames, types, requests) ==
  [FreshParams EXCEPT
     !.priority = priority, !.groups = groups,
     !.nicknames = OptArray(nicknames), !.AppHMIType = OptArray(types),
     !.RequestType = OptArray(requests)]

NullParams == [FreshParams EXCEPT !.is_null = TRUE]
DefaultString == [FreshParams EXCEPT !.predefined_string = kDefaultId]

\* every other application inherits from "default"
InheritingApps ==
  ("default" :> Params("P_NONE", <<"Base-4", "DataConsent-2">>,
                       <<>>, <<>>, <<>>)) @@
  ("app1" :> DefaultString) @@ ("pre_DataConsent" :> DefaultString) @@
  ("zapp" :> DefaultString)

RevokedApp1 ==
  ("default" :> Params("P_NONE", <<"Base-4">>, <<>>, <<>>, <<>>)) @@
  ("app1" :> NullParams) @@
  ("pre_DataConsent" :> DefaultString) @@
  ("zapp" :> Params("P_NORMAL", <<"Base-4">>, <<"Zapp">>,
                    <<"AHT_MEDIA">>, <<"RT_HTTP">>))

RevokedZapp ==
  ("app1" :> Params("P_EMERGENCY", <<"DataConsent-2", "Base-4">>,
                    <<"App One">>, <<>>, <<"RT_PROPRIETARY">>)) @@
  ("zapp" :> NullParams)

ModuleConfig(preloaded, cycles) ==
  [preloaded_pt |-> preloaded, exchange_after_x_ignition_cycles |-> cycles,
   exchange_after_x_kilometers |-> 100, exchange_after_x_days |-> 30,
   timeout_after_x_seconds |-> 60, vehicle_make |-> Set("Make"),
   vehicle_model |-> Unset(""), vehicle_year |-> Unset(""),
   preloaded_date |-> Unset(""), certificate |-> Unset(""),
   seconds_between_retries |-> <<1, 5>>,
   notifications_per_minute_by_priority |-> ("EMERGENCY" :> 60),
   endpoints |-> ("0x07" :> ("default" :> <<"http://policies">>))]

ModuleMeta(cycles) ==
  [pt_exchanged_at_odometer_x |-> Set(0),
   pt_exchanged_x_days_after_epoch |-> Set(0),
   ignition_cycles_since_last_exchange |-> Set(cycles)]

\* the other sections of a preloaded table: no message strings
PreloadedRest ==
  [module_config |-> ModuleConfig(Set(TRUE), 2),
   consumer_friendly_messages |->
     [version |-> "v1", messages |-> Unset(EmptyMap)],
   device_data |-> EmptyMap,
   usage_and_error_counts |-> [app_level |-> EmptyMap],
   module_meta |-> ModuleMeta(0)]

\* the other sections of an update: message strings, a device, counters
UpdateRest ==
  [module_config |-> ModuleConfig(Unset(FALSE), 1),
   consumer_friendly_messages |->
     [version |-> "v2",
      messages |->
        Set("AppPermissions" :>
              [languages |-> ("en-us" :> "MessageString")])],
   device_data |-> ("dev1" :> "DeviceParams"),
   usage_and_error_counts |-> [app_level |-> ("app1" :> "AppLevel")],
   module_meta |-> ModuleMeta(1)]

Table(groups, apps, rest) ==
  [policy_table |->
     rest @@ [functional_groupings |-> groups,
              app_policies_section |->
                [apps |-> apps, device |-> [priority |-> "P_NONE"]]]]

GroupsNamed(apps) ==
  UNION {{apps[a].groups[i] : i \in DOMAIN apps[a].groups} : a \in DOMAIN apps}

WellFormed(table) ==
  LET apps == table.policy_table.app_policies_section.apps
  IN /\ GroupsNamed(apps) \subseteq
          DOMAIN table.policy_table.functional_groupings
     /\ (\E a \in DOMAIN apps : apps[a].predefined_string = kDefaultId)
          => kDefaultId \in DOMAIN apps

Docs ==
  { table \in { Table(TwoGroups, InheritingApps, PreloadedRest),
                Table(OneGroup, RevokedApp1, UpdateRest),
                Table(TwoGroups, RevokedZapp, UpdateRest),
                Table(EmptyGroup, EmptyMap, PreloadedRest),
                Table(OneGroup, EmptyMap, UpdateRest) } :
      WellFormed(table) }

(***************************************************************************)
(* The state machine: a store, the last call with what it returned, and    *)
(* the id each group name had when it was first stored.                    *)
(***************************************************************************)
VARIABLES db, last, first_id

vars == <<db, last, first_id>>

\* the statements made to fail during Save
SaveFaults ==
  { NoFault, <<"exec", "kInsertRpcWithParameter">>,
    <<"prepare", "kInsertAppGroup">>, <<"exec", "kUpdateModuleConfig">>,
    <<"exec", "kUpdateVersion">>, <<"prepare", "kInsertDeviceData">>,
    <<"prepare", "kInsertAppLevel">>, <<"exec", "kSaveModuleMeta">> }

\* a store whose message bodies were written outside this component
StoreWithMessages ==
  [SeedDB EXCEPT
     !.message = <<[message_type_name |-> "AppPermissions",
                    language_code |-> "en-us", tts |-> "Grant"]>>,
     !.message_type = <<[name |-> "AppPermissions"]>>,
     !.language = <<[code |-> "en-us"]>>]

\* a caller's result before the call: fresh, or left from an earlier call
ResultsIn ==
  { [hmi_level_permitted |-> kRpcDisallowed, list_of_allowed_params |-> <<>>],
    [hmi_level_permitted |-> kRpcAllowed,
     list_of_allowed_params |-> <<"earlier">>] }

\* no group has been stored yet
NoIds ==
  [g \in {GroupOrder[i] : i \in DOMAIN GroupOrder} |->
     [id |-> 0, refreshed |-> FALSE]]

\* the id each group had when it was first stored
FirstIds(ids, store) ==
  [g \in DOMAIN ids |->
     IF ids[g].id = 0 /\ \E i \in DOMAIN store.functional_group :
                           store.functional_group[i].name = g
     THEN [ids[g] EXCEPT !.id =
             store.functional_group[
               CHOOSE i \in DOMAIN store.functional_group :
                 store.functional_group[i].name = g].id]
     ELSE ids[g]]

\* the groups stored so far have been through a RefreshDB
Refreshed(ids) ==
  [g \in DOMAIN ids |-> [ids[g] EXCEPT !.refreshed = ids[g].id # 0]]

\* what a call of Save leaves to look at: the calls it made, what it
\* returned and, when it stored the document, the document
Returned(snapshot, table, r) ==
  IF r.ok
  THEN [op |-> "Save", snapshot |-> snapshot, ret |-> TRUE, log |-> r.log,
        table |-> table]
  ELSE [op |-> "Save", snapshot |-> snapshot, ret |-> FALSE, log |-> r.log]

Init ==
  /\ db \in {SeedDB, StoreWithMessages}
  /\ last = [op |-> "Init"]
  /\ first_id = NoIds

DoSave ==
  /\ db.schema = "seeded"
  /\ \E table \in Docs, fault \in SaveFaults :
       \E r \in {Save(db, table, fault)} :
          /\ db' = r.db
          /\ last' = Returned(FALSE, table, r)
          /\ first_id' = FirstIds(first_id, r.db)

\* Save of the document GenerateSnapshot returns
DoSaveSnapshot ==
  /\ db.schema = "seeded"
  /\ \E fault \in {NoFault, <<"exec", "kSaveModuleMeta">>},
        table \in {GenerateSnapshot(db, NoFault)} :
       \E r \in {Save(db, table, fault)} :
          /\ db' = r.db
          /\ last' = Returned(TRUE, table, r)
          /\ first_id' = FirstIds(first_id, r.db)

DoCheckPermissions ==
  /\ db.schema = "seeded"
  /\ \E app_id \in {"app1", "zapp"}, hmi_level \in {"FULL", "NONE"},
        rpc \in {"Show", "Alert"}, result \in ResultsIn,
        fault \in {NoFault, <<"prepare", "kSelectRpc">>} :
       last' = [op |-> "CheckPermissions", app_id |-> app_id,
                hmi_level |-> hmi_level, rpc |-> rpc, given |-> result,
                fault |-> fault,
                result |-> CheckPermissions(db, app_id, hmi_level, rpc,
                                            result, fault)]
  /\ UNCHANGED <<db, first_id>>

DoIncrementIgnitionCycles ==
  /\ db.schema = "seeded"
  /\ db.module_meta.ignition_cycles_since_last_exchange < MaxCycles
  /\ \E fault \in {NoFault, <<"exec", "kIncrementIgnitionCycles">>} :
       /\ db' = IncrementIgnitionCycles(db, fault)
       /\ last' = [op |-> "IncrementIgnitionCycles", fault |-> fault]
  /\ UNCHANGED first_id

DoResetIgnitionCycles ==
  /\ db.schema = "seeded"
  /\ \E fault \in {NoFault, <<"exec", "kResetIgnitionCycles">>} :
       /\ db' = ResetIgnitionCycles(db, fault)
       /\ last' = [op |-> "ResetIgnitionCycles", fault |-> fault]
  /\ UNCHANGED first_id

DoRefreshDB ==
  /\ \E fault \in {NoFault, <<"exec", "kDropSchema">>,
                   <<"exec", "kCreateSchema">>,
                   <<"exec", "kInsertInitData">>} :
       \E r \in {RefreshDB(db, fault)} :
          /\ db' = r.db
          /\ last' = [op |-> "RefreshDB", fault |-> fault, ret |-> r.ok,
                      stmts |-> r.stmts]
          /\ first_id' = IF r.ok THEN Refreshed(first_id) ELSE first_id

\* Clear of a store whose tables exist
DoClear ==
  /\ db.schema # "none"
  /\ \E fault \in {NoFault, <<"exec", "kDeleteData">>,
                   <<"exec", "kInsertInitData">>} :
       \E r \in {Clear(db, fault)} :
          /\ db' = r.db
          /\ last' = [op |-> "Clear", fault |-> fault, ret |-> r.ok,
                      stmts |-> r.stmts]
  /\ UNCHANGED first_id

\* the store under Save, Save of its own snapshot, and RefreshDB
Next ==
  \/ DoSave
  \/ DoSaveSnapshot
  \/ DoRefreshDB
  \/ DoClear

Spec == Init /\ [][Next]_vars

\* the stores a successful Save of one document leaves
SavedStores == { Save(SeedDB, table, NoFault).db : table \in Docs }

QueryInit ==
  /\ db \in SavedStores
  /\ last = [op |-> "Init"]
  /\ first_id = NoIds

\* the calls made on a stored table between two Saves
QueryNext ==
  \/ DoCheckPermissions
  \/ DoIncrementIgnitionCycles
  \/ DoResetIgnitionCycles

QuerySpec == QueryInit /\ [][QueryNext]_vars

\* the limits and counters the cadence functions are applied to: small
\* ones of either sign, and the ends of the range of an int
Counters == (-1 .. MaxCounter) \cup {-2147483647 - 1, 2147483647}

CadenceInit ==
  /\ \E limit \in Counters, current \in Counters :
       db = [SeedDB EXCEPT
               !.module_config.exchange_after_x_ignition_cycles = limit,
               !.module_config.exchange_after_x_kilometers = limit,
               !.module_config.exchange_after_x_days = limit,
               !.module_meta.ignition_cycles_since_last_exchange = current]
  /\ last = [op |-> "Init"]
  /\ first_id = NoIds

DoSetCountersPassedForSuccessfulUpdate ==
  /\ \E kilometers \in Counters, days_after_epoch \in Counters,
        fault \in {NoFault, <<"exec", "kUpdateCountersSuccessfulUpdate">>} :
       \E r \in {SetCountersPassedForSuccessfulUpdate(
                   db, kilometers, days_after_epoch, fault)} :
          /\ db' = r.db
          /\ last' = [op |-> "SetCountersPassedForSuccessfulUpdate",
                      fault |-> fault, ret |-> r.ok]
  /\ UNCHANGED first_id

DoKilometersBeforeExchange ==
  /\ \E current \in Counters,
        fault \in {NoFault, <<"prepare", "kSelectKilometers">>} :
       last' = [op |-> "KilometersBeforeExchange", current |-> current,
                fault |-> fault,
                result |-> KilometersBeforeExchange(db, current, fault)]
  /\ UNCHANGED <<db, first_id>>

DoDaysBeforeExchange ==
  /\ \E current \in Counters,
        fault \in {NoFault, <<"exec", "kSelectDays">>} :
       last' = [op |-> "DaysBeforeExchange", current |-> current,
                fault |-> fault,
                result |-> DaysBeforeExchange(db, current, fault)]
  /\ UNCHANGED <<db, first_id>>

DoIgnitionCyclesBeforeExchange ==
  /\ \E fault \in {NoFault, <<"exec", "kSelectIgnitionCycles">>} :
       last' = [op |-> "IgnitionCyclesBeforeExchange", fault |-> fault,
                result |-> IgnitionCyclesBeforeExchange(db, fault)]
  /\ UNCHANGED <<db, first_id>>

\* the cadence functions on stores of every sign and order of counters
CadenceNext ==
  \/ DoSetCountersPassedForSuccessfulUpdate
  \/ DoKilometersBeforeExchange
  \/ DoDaysBeforeExchange
  \/ DoIgnitionCyclesBeforeExchange

CadenceSpec == CadenceInit /\ [][CadenceNext]_vars

\* a call of Init in which everything answers
NormalCall ==
  [attempts |-> 0, opens |-> [i \in 1 .. MaxAttempts + 1 |-> TRUE],
   read_write |-> TRUE, integrity |-> <<"ok">>, fault |-> NoFault,
   open_attempt_timeout_ms |-> 500]

\* the rows of kCheckDBIntegrity tried
IntegrityRows ==
  { <<>>, <<"ok">>, <<"row 1 missing from index">>,
    <<"ok", "row 1 missing from index">>,
    <<"row 1 missing from index", "ok">> }

InitFaults ==
  { <<"prepare", "kCheckPgNumber">>, <<"prepare", "kCheckDBIntegrity">>,
    <<"prepare", "kIsFirstRun">>, <<"exec", "kSetNotFirstRun">>,
    <<"exec", "kCreateSchema">>, <<"exec", "kInsertInitData">> }

\* the calls of Init tried: every outcome of the opens with every number
\* of attempts, a store that is not writable, the integrity rows, the
\* failing statements
InitCalls ==
  { [NormalCall EXCEPT !.attempts = attempts, !.opens = opens] :
      attempts \in 0 .. MaxAttempts,
      opens \in [1 .. MaxAttempts + 1 -> BOOLEAN] }
  \cup { [NormalCall EXCEPT !.attempts = 3, !.read_write = read_write,
                            !.opens = <<FALSE, FALSE, TRUE, TRUE>>,
                            !.open_attempt_timeout_ms = ms] :
           ms \in {0, 65535}, read_write \in BOOLEAN }
  \cup { [NormalCall EXCEPT !.read_write = FALSE] }
  \cup { [NormalCall EXCEPT !.integrity = rows] : rows \in IntegrityRows }
  \cup { [NormalCall EXCEPT !.fault = fault] : fault \in InitFaults }

\* a file never written, a store shipped with its first-run flag set, and
\* a store whose version an earlier build wrote
InitStores ==
  { NoRows("none"),
    [SeedDB EXCEPT !.is_first_run = TRUE],
    [SeedDB EXCEPT !.module_meta.db_version =
       GenerateHash(EarlierSchemaText)] }

\* created: an Init on the file never written has returned SUCCESS
InitInit ==
  /\ db \in InitStores
  /\ last = [op |-> "Init", created |-> FALSE]
  /\ first_id = NoIds

DoInit ==
  /\ \E c \in InitCalls :
       \E r \in {SQLPTInit(db, c)} :
          /\ db' = r.db
          /\ last' = [op |-> "SQLPTRepresentation::Init", call |-> c,
                      result |-> r.result, open_counter |-> r.open_counter,
                      stmts |-> r.stmts, sleeps |-> r.sleeps,
                      created |-> \/ last.created
                                  \/ (db.schema = "none"
                                        /\ r.result = "SUCCESS")]
  /\ UNCHANGED first_id

DoUpdateDBVersion ==
  /\ db.schema = "seeded"
  /\ \E fault \in {NoFault, <<"exec", "kUpdateDBVersion">>} :
       \E r \in {UpdateDBVersion(db, fault)} :
          /\ db' = r.db
          /\ last' = [op |-> "UpdateDBVersion", fault |-> fault,
                      ret |-> r.ok, created |-> last.created]
  /\ UNCHANGED first_id

DoIsDBVersionActual ==
  /\ db.schema = "seeded"
  /\ \E fault \in {NoFault, <<"prepare", "kSelectDBVersion">>} :
       last' = [op |-> "IsDBVersionActual", fault |-> fault,
                result |-> IsDBVersionActual(db, fault),
                created |-> "created" \in DOMAIN last /\ last.created]
  /\ UNCHANGED <<db, first_id>>

\* the store from its file on: Init, and the version calls of the layer
\* above
InitNext ==
  \/ DoInit
  \/ DoUpdateDBVersion
  \/ DoIsDBVersionActual

InitSpec == InitInit /\ [][InitNext]_vars

\* a saved store to which another build of the component has added a row
\* with a token this build does not know
UnknownTokenStores(store) ==
  { [store EXCEPT !.rpc =
       Append(@, [store.rpc[i] EXCEPT !.hmi_level_value = "FUTURE_LEVEL"])] :
      i \in DOMAIN store.rpc }
  \cup
  { [store EXCEPT !.rpc =
       Append(@, [store.rpc[i] EXCEPT !.parameter = "futureField"])] :
      i \in DOMAIN store.rpc }
  \cup
  { [store EXCEPT !.app_type =
       Append(@, [application_id |-> store.application[i].id,
                  name |-> "FUTURE_TYPE"])] :
      i \in DOMAIN store.application }
  \cup
  { [store EXCEPT !.request_type =
       Append(@, [application_id |-> store.application[i].id,
                  request_type |-> "FUTURE_REQUEST"])] :
      i \in DOMAIN store.application }

\* a saved store in which one row of application was marked revoked,
\* with the is_default flag it had or with that flag set
RevokedStores(store) ==
  { [store EXCEPT !.application[i].is_revoked = TRUE,
                  !.application[i].is_default = IF d THEN TRUE ELSE @,
                  !.application[i].nulls =
                     @ \ ({"is_revoked"} \cup IF d THEN {"is_default"} ELSE {})] :
      i \in DOMAIN store.application, d \in BOOLEAN }

LoadInit ==
  /\ \E store \in SavedStores :
       db \in {store} \cup UnknownTokenStores(store) \cup RevokedStores(store)
  /\ last = [op |-> "Init"]
  /\ first_id = NoIds

DoGatherFunctionalGroupings ==
  /\ \E fault \in {NoFault, <<"prepare", "kSelectAllRpcs">>} :
       last' = [op |-> "GatherFunctionalGroupings", fault |-> fault,
                result |-> GatherFunctionalGroupings(db, fault)]
  /\ UNCHANGED <<db, first_id>>

DoGatherApplicationPoliciesSection ==
  /\ \E fault \in {NoFault, <<"prepare", "kSelectAppPolicies">>,
                   <<"prepare", "kSelectApplicationIsDefault">>,
                   <<"prepare", "kSelectRequestTypes">>} :
       last' = [op |-> "GatherApplicationPoliciesSection", fault |-> fault,
                result |-> GatherApplicationPoliciesSection(db, fault)]
  /\ UNCHANGED <<db, first_id>>

\* the selects GenerateSnapshot prepares for the parts of the document
SnapshotSelects ==
  {"kSelectModuleMeta", "kSelectModuleConfig", "kSelectEndpoints",
   "kSelectNotificationsPerMin", "kSelectSecondsBetweenRetries",
   "kSelectAppLevels", "kSelectDeviceData", "kSelectFunctionalGroups",
   "kSelectAllRpcs", "kSelectUserMsgsVersion", "kSelectAppPolicies"}

DoGenerateSnapshot ==
  /\ \E fault \in {NoFault} \cup {<<"prepare", s>> : s \in SnapshotSelects} :
       last' = [op |-> "GenerateSnapshot", fault |-> fault,
                calls |-> GenerateSnapshotCalls(db, fault),
                initialized |->
                  [s \in SnapshotSelects |-> IsInitialized(s, db, fault)],
                table |-> GenerateSnapshot(db, fault)]
  /\ UNCHANGED <<db, first_id>>

\* the load of a stored table, whole and by section
LoadNext ==
  \/ DoGatherFunctionalGroupings
  \/ DoGatherApplicationPoliciesSection
  \/ DoGenerateSnapshot

LoadSpec == LoadInit /\ [][LoadNext]_vars

(***************************************************************************)
(* The writes of one application, applied to a stored table.               *)
(***************************************************************************)
\* the values of an application of a document: structured, null, and the
\* two predefined strings on a value whose lists are filled (as
\* GatherApplicationPoliciesSection leaves it)
AppValues ==
  LET full == Params("P_NORMAL", <<"DataConsent-2", "Base-4">>, <<"Nick">>,
                     <<"AHT_MEDIA">>, <<"RT_HTTP">>)
  IN {full, NullParams, DefaultString,
      [full EXCEPT !.predefined_string = kDefaultId],
      [full EXCEPT !.predefined_string = kPreDataConsentId]}

AppFaults ==
  {NoFault} \cup
  {<<"prepare", stmt>> :
     stmt \in {"kInsertApplication", "kInsertAppGroup", "kInsertNickname",
               "kInsertAppType", "kInsertRequestType",
               "kDeleteAppGroupByApplicationId", "kUpdatePreloaded",
               "kUpdateIsDefault", "kInsertApplicationFull"}}

AppInit ==
  /\ db \in SavedStores
  /\ last = [op |-> "Init"]
  /\ first_id = NoIds

DoSaveSpecificAppPolicy ==
  /\ \E app_id \in {"app1"}, app \in AppValues, fault \in AppFaults :
       \E r \in {SaveSpecificAppPolicy(db, app_id, app, fault)} :
          /\ db' = r.db
          /\ last' = [op |-> "SaveSpecificAppPolicy", app_id |-> app_id,
                      app |-> app, fault |-> fault, ret |-> r.ok]
  /\ UNCHANGED first_id

DoSetDefaultPolicy ==
  /\ \E app_id \in {"app1"}, fault \in AppFaults :
       \E r \in {SetDefaultPolicy(db, app_id, fault)} :
          /\ db' = r.db
          /\ last' = [op |-> "SetDefaultPolicy", app_id |-> app_id,
                      fault |-> fault, ret |-> r.ok]
  /\ UNCHANGED first_id

AppNext ==
  \/ DoSaveSpecificAppPolicy
  \/ DoSetDefaultPolicy

AppSpec == AppInit /\ [][AppNext]_vars

(***************************************************************************)
(* SaveRpcs, applied to a stored table.                                    *)
(***************************************************************************)
MaxRpcRows == 3

\* the rpcs of a group: parameters filled, empty and unset, one and two
\* levels, no level
RpcInputs ==
  { TwoGroups["Base-4"].rpcs, TwoGroups["DataConsent-2"].rpcs,
    EmptyGroup["Base-4"].rpcs,
    [is_null |-> FALSE,
     m |-> ("Show" :> [hmi_levels |-> <<"HL_NONE", "HL_FULL">>,
                       parameters |-> Set(<<>>)]) @@
           ("Alert" :> Rpc(<<>>, <<"P_MAINFIELD1">>))] }

RpcInit ==
  /\ db \in SavedStores
  /\ last = [op |-> "Init"]
  /\ first_id = NoIds

\* SaveRpcs on a table of at most MaxRpcRows rows
DoSaveRpcs ==
  /\ Len(db.rpc) <= MaxRpcRows
  /\ \E group_id \in {GroupId("Base-4"), GroupId("DataConsent-2")},
        rpcs \in RpcInputs,
        fault \in {NoFault, <<"prepare", "kInsertRpc">>,
                   <<"exec", "kInsertRpcWithParameter">>} :
       \E r \in {SaveRpcs(db, group_id, rpcs, fault)} :
          /\ db' = r.db
          /\ last' = [op |-> "SaveRpcs", group_id |-> group_id,
                      rpcs |-> rpcs, fault |-> fault, ret |-> r.ok]
  /\ UNCHANGED first_id

RpcNext == DoSaveRpcs

RpcSpec == RpcInit /\ [][RpcNext]_vars

(***************************************************************************)
(* Save on stores whose update flag and schema version have been written.  *)
(***************************************************************************)
MetaInit ==
  /\ db \in { SeedDB,
              [SeedDB EXCEPT !.module_meta.db_version = GetDBVersion],
              [SeedDB EXCEPT !.module_meta.db_version =
                 GenerateHash(EarlierSchemaText)] }
  /\ last = [op |-> "Init"]
  /\ first_id = NoIds

DoSaveUpdateRequired ==
  /\ \E value \in BOOLEAN,
        fault \in {NoFault, <<"prepare", "kUpdateFlagUpdateRequired">>} :
       /\ db' = SaveUpdateRequired(db, value, fault)
       /\ last' = [op |-> "SaveUpdateRequired", value |-> value,
                   fault |-> fault]
  /\ UNCHANGED first_id

\* Save with a failure in the first, the third or the last sub-save
DoSaveMeta ==
  /\ \E table \in Docs,
        fault \in {NoFault, <<"exec", "kInsertRpcWithParameter">>,
                   <<"exec", "kUpdateModuleConfig">>,
                   <<"exec", "kSaveModuleMeta">>} :
       \E r \in {Save(db, table, fault)} :
          /\ db' = r.db
          /\ last' = [op |-> "Save", table |-> table, fault |-> fault,
                      ret |-> r.ok]
  /\ UNCHANGED first_id

MetaNext ==
  \/ DoSaveUpdateRequired
  \/ DoSaveMeta

MetaSpec == MetaInit /\ [][MetaNext]_vars

(***************************************************************************)
(* The id SaveFunctionalGroupings binds, for group names at large.         *)
(***************************************************************************)
MaxNameLen == 3

\* the strings of at most n of the characters given
RECURSIVE Strings(_, _)
Strings(chars, n) ==
  IF n = 0 THEN {<<>>}
  ELSE LET shorter == Strings(chars, n - 1)
       IN shorter \cup {Append(cs, c) : cs \in shorter, c \in chars}

\* short names of the characters "-", "2", "B", "a", the names of the
\* documents, and names whose hash is the smallest int ("ewmju2a"), the
\* smallest but one ("ewmju3A"), the greatest ("saLZzWO") and 0
\* ("glidqHB")
GroupNames ==
  Strings({45, 50, 66, 97}, MaxNameLen)
    \cup {Chars["Base-4"], Chars["DataConsent-2"]}
    \cup { <<101, 119, 109, 106, 117, 50, 97>>,
           <<101, 119, 109, 106, 117, 51, 65>>,
           <<115, 97, 76, 90, 122, 87, 79>>,
           <<103, 108, 105, 100, 113, 72, 66>> }

HashInit ==
  /\ db = SeedDB
  /\ \E build \in AbsBuilds : last = [op |-> "Init", build |-> build]
  /\ first_id = NoIds

\* the id one round of the loop of SaveFunctionalGroupings binds for a
\* group name
DoBindGroupId ==
  /\ \E name \in GroupNames :
       \E r \in {AbsOfInt(SignedHash(name), last.build)} :
          last' = [op |-> "SaveFunctionalGroupings", build |-> last.build,
                   name |-> name, hash |-> SignedHash(name),
                   trap |-> r.trap, id |-> r.id]
  /\ UNCHANGED <<db, first_id>>

HashNext == DoBindGroupId

HashSpec == HashInit /\ [][HashNext]_vars

(***************************************************************************)
(* The queries, applied to a stored table.                                 *)
(***************************************************************************)
ReadInit ==
  /\ db \in SavedStores
            \cup {[SeedDB EXCEPT !.module_meta.flag_update_required = TRUE,
                                 !.module_meta.db_version = GetDBVersion]}
  /\ last = [op |-> "Init"]
  /\ first_id = NoIds

DoTimeoutResponse ==
  /\ \E fault \in {NoFault, <<"prepare", "kSelectTimeoutResponse">>} :
       last' = [op |-> "TimeoutResponse", fault |-> fault,
                result |-> TimeoutResponse(db, fault)]
  /\ UNCHANGED <<db, first_id>>

DoGetPriority ==
  /\ \E policy_app_id \in {"app1", kDeviceId, "unknown"},
        priority \in {NULL, "", "earlier"},
        fault \in {NoFault, <<"exec", "kSelectPriority">>} :
       last' = [op |-> "GetPriority", policy_app_id |-> policy_app_id,
                given |-> priority, fault |-> fault,
                result |-> GetPriority(db, policy_app_id, priority, fault)]
  /\ UNCHANGED <<db, first_id>>

DoUpdateRequired ==
  /\ \E fault \in {NoFault, <<"prepare", "kSelectFlagUpdateRequired">>} :
       last' = [op |-> "UpdateRequired", fault |-> fault,
                result |-> UpdateRequired(db, fault)]
  /\ UNCHANGED <<db, first_id>>

ReadNext ==
  \/ DoCheckPermissions
  \/ DoIgnitionCyclesBeforeExchange
  \/ DoKilometersBeforeExchange
  \/ DoDaysBeforeExchange
  \/ DoTimeoutResponse
  \/ DoGetPriority
  \/ DoUpdateRequired
  \/ DoIsDBVersionActual
  \/ DoGenerateSnapshot

ReadSpec == ReadInit /\ [][ReadNext]_vars

(***************************************************************************)
(* SaveConsumerFriendlyMessages, applied to a stored table.                *)
(***************************************************************************)
\* the message sections of a document: no container, an empty one, one
\* type in two languages, two types of which the first has no language
MessageInputs ==
  { [version |-> v, messages |-> m] :
      v \in {"v2", "v3"},
      m \in { Unset(EmptyMap), Set(EmptyMap),
              Set("AppPermissions" :>
                    [languages |-> ("de-de" :> "MessageString") @@
                                   ("en-us" :> "MessageString")]),
              Set(("AppPermissions" :> [languages |-> EmptyMap]) @@
                  ("DataConsent" :>
                     [languages |-> ("en-us" :> "MessageString")])) } }

MessageFaults ==
  { NoFault, <<"exec", "kDeleteMessageString">>,
    <<"prepare", "kUpdateVersion">>, <<"exec", "kUpdateVersion">>,
    <<"prepare", "kInsertMessageType">>, <<"exec", "kInsertLanguage">> }

MessageInit ==
  /\ db \in {SeedDB, StoreWithMessages} \cup SavedStores
  /\ last = [op |-> "Init"]
  /\ first_id = NoIds

DoSaveConsumerFriendlyMessages ==
  \E messages \in MessageInputs, fault \in MessageFaults :
    \E r \in {SaveConsumerFriendlyMessages(db, messages, fault)} :
       /\ db' = r.db
       /\ last' = [op |-> "SaveConsumerFriendlyMessages",
                   messages |-> messages, fault |-> fault, ret |-> r.ok]
       /\ UNCHANGED first_id

MessageNext == DoSaveConsumerFriendlyMessages

MessageSpec == MessageInit /\ [][MessageNext]_vars

(***************************************************************************)
(* Properties of Save, GenerateSnapshot and RefreshDB, under Spec.         *)
(***************************************************************************)
Snapshot(store) == GenerateSnapshot(store, NoFault)

\* C1: a Save that returns false leaves the store as it was before the
\* call: the snapshot taken after it is the snapshot taken before it, and
\* no table holds a partial write.
C1_FailedSaveIsAtomic ==
  [][(last'.op = "Save" /\ ~last'.ret)
       => /\ Snapshot(db') = Snapshot(db)
          /\ db' = db]_vars

\* a Save whose last sub-save failed, after the six before it had written
C1_Witness ==
  /\ last.op = "Save"
  /\ ~last.ret
  /\ Call("SaveModuleMeta", FALSE) = last.log[Len(last.log) - 1]
  /\ db.functional_group # <<>>

\* C2: Save begins one transaction, calls the sub-saves in the fixed order
\* up to the first that fails, rolls back and returns false at that one,
\* commits and returns true only after all seven succeeded, and ends with
\* exactly one of commit and rollback.
C2_SaveOrder ==
  last.op = "Save" =>
    LET log == last.log
        n == Len(log)
        order == <<"SaveFunctionalGroupings", "SaveApplicationPoliciesSection",
                   "SaveModuleConfig", "SaveConsumerFriendlyMessages",
                   "SaveDeviceData", "SaveUsageAndErrorCounts",
                   "SaveModuleMeta">>
        ends == {i \in 1..n : log[i].name \in {"CommitTransaction",
                                               "RollbackTransaction"}}
    IN /\ n >= 3 /\ n <= 9
       /\ log[1] = Call("BeginTransaction", TRUE)
       /\ \A i \in 2..n : log[i].name # "BeginTransaction"
       /\ \A i \in 2..(n - 1) : log[i].name = order[i - 1]
       /\ \A i \in 2..(n - 2) : log[i].ok
       /\ ends = {n}
       /\ IF last.ret
          THEN n = 9 /\ log[n - 1].ok /\ log[n].name = "CommitTransaction"
          ELSE ~log[n - 1].ok /\ log[n].name = "RollbackTransaction"

\* a Save that failed in its third sub-save and called none of the later
C2_Witness ==
  /\ last.op = "Save"
  /\ ~last.ret
  /\ Len(last.log) = 5
  /\ last.log[4] = Call("SaveModuleConfig", FALSE)

\* C3: Save of a document GenerateSnapshot produced, followed by
\* GenerateSnapshot, gives that document again: every field with its
\* set/null/unset state and every application in its form.
C3_RoundTrip ==
  (last.op = "Save" /\ last.snapshot /\ last.ret)
    => Snapshot(db) = last.table

\* a round trip of a table with a revoked application, an inheriting one
\* and a structured one
C3_Witness ==
  /\ last.op = "Save" /\ last.snapshot /\ last.ret
  /\ LET apps == last.table.policy_table.app_policies_section.apps
     IN \E a, b, c \in DOMAIN apps :
          /\ apps[a].is_null
          /\ apps[b].predefined_string = kDefaultId
          /\ ~apps[c].is_null /\ apps[c].predefined_string = ""
          /\ apps[c].groups # <<>>
  /\ DOMAIN last.table.policy_table.functional_groupings # {}

\* C6: after a successful Save of a document whose "default" application
\* carries groups and in which another application has the string value
\* "default", GatherAppGroup of that application returns the groups of
\* "default" and IsDefaultPolicy is true, wherever its key sorts.
C6_DefaultInheritance ==
  (last.op = "Save" /\ last.ret) =>
    LET apps == last.table.policy_table.app_policies_section.apps
    IN \A appX \in DOMAIN apps \ {kDefaultId} :
         (/\ kDefaultId \in DOMAIN apps
          /\ ~apps[kDefaultId].is_null
          /\ apps[kDefaultId].predefined_string = ""
          /\ apps[appX].predefined_string = kDefaultId)
           => /\ GatherAppGroup(db, appX, NoFault) =
                   [ok |-> TRUE, v |-> apps[kDefaultId].groups]
              /\ IsDefaultPolicy(db, appX, NoFault)

\* the inheriting keys sort on both sides of "default"
C6_Witness ==
  /\ last.op = "Save" /\ last.ret /\ ~last.snapshot
  /\ LET apps == last.table.policy_table.app_policies_section.apps
     IN /\ {"app1", kDefaultId, "zapp"} \subseteq DOMAIN apps
        /\ apps["app1"].predefined_string = kDefaultId
        /\ apps["zapp"].predefined_string = kDefaultId
        /\ apps[kDefaultId].groups = <<"Base-4", "DataConsent-2">>
  /\ GatherAppGroup(db, "app1", NoFault).v = <<"Base-4", "DataConsent-2">>
  /\ GatherAppGroup(db, "zapp", NoFault).v = <<"Base-4", "DataConsent-2">>

\* C7: after a successful Save of a document in which an application has a
\* null value, IsApplicationRevoked of it is true and GatherAppGroup of it
\* returns an empty list.
C7_Revocation ==
  (last.op = "Save" /\ last.ret) =>
    LET apps == last.table.policy_table.app_policies_section.apps
    IN \A appY \in DOMAIN apps :
         apps[appY].is_null
           => /\ IsApplicationRevoked(db, appY, NoFault)
              /\ GatherAppGroup(db, appY, NoFault) = [ok |-> TRUE, v |-> <<>>]

\* an application that had groups is saved as null
C7_Witness ==
  /\ last.op = "Save" /\ last.ret /\ ~last.snapshot
  /\ "zapp" \in DOMAIN last.table.policy_table.app_policies_section.apps
  /\ last.table.policy_table.app_policies_section.apps["zapp"].is_null
  /\ IsApplicationRevoked(db, "zapp", NoFault)
  /\ first_id["DataConsent-2"].id # 0

\* C8: a Save of a document whose messages container is unset leaves the
\* stored message strings, message types, languages and messages version
\* as they were, whatever version the document carries.
C8_PreserveOnAbsent ==
  [][(/\ last'.op = "Save"
      /\ last'.ret
      /\ ~last'.table.policy_table.consumer_friendly_messages.messages.init)
       => /\ db'.message = db.message
          /\ db'.message_type = db.message_type
          /\ db'.language = db.language
          /\ db'.version = db.version]_vars

\* stored strings survive the Save of a document that carries another
\* version and no messages
C8_Witness ==
  /\ last.op = "Save" /\ last.ret /\ ~last.snapshot
  /\ ~last.table.policy_table.consumer_friendly_messages.messages.init
  /\ db.message # <<>>
  /\ db.version # last.table.policy_table.consumer_friendly_messages.version

\* C9: the id stored for a group is abs(Djb2Hash(name)), and it is the id
\* the name had when it was first stored, also after a RefreshDB and a
\* re-save, whatever other groups are stored with it.
C9_StableGroupIds ==
  \A i \in DOMAIN db.functional_group :
    LET row == db.functional_group[i]
    IN /\ row.id = Abs(GenerateHash(row.name))
       /\ row.id = first_id[row.name].id
       /\ row.name = "Base-4" => row.id = 1460696479
       /\ row.name = "DataConsent-2" => row.id = 414812216

\* a group stored again after a RefreshDB, once alone and once with another
C9_Witness ==
  /\ last.op = "Save" /\ last.ret
  /\ Len(db.functional_group) = 1
  /\ db.functional_group[1].name = "Base-4"
  /\ first_id["Base-4"].refreshed
  /\ first_id["DataConsent-2"].refreshed

(***************************************************************************)
(* Properties of the calls on a stored table, under QuerySpec.             *)
(***************************************************************************)
\* the rpc rows with that name and hmi level in a group bound to app_id
MatchingRows(store, app_id, hmi_level, rpc) ==
  SelectSeq(store.rpc,
            LAMBDA r :
              /\ r.name = rpc
              /\ r.hmi_level_value = hmi_level
              /\ \E j \in DOMAIN store.app_group :
                   /\ store.app_group[j].application_id = app_id
                   /\ store.app_group[j].functional_group_id =
                        r.functional_group_id)

LastMatching == MatchingRows(db, last.app_id, last.hmi_level, last.rpc)

\* C4: CheckPermissions, when its select prepares, sets hmi_level_permitted
\* to kRpcAllowed if and only if the store holds a matching rpc row; with
\* no matching row it sets kRpcDisallowed and adds no parameter.
C4_AllowedIffMatchingRow ==
  (last.op = "CheckPermissions" /\ last.fault = NoFault) =>
    /\ last.result.hmi_level_permitted = kRpcAllowed <=> LastMatching # <<>>
    /\ LastMatching = <<>> =>
         /\ last.result.hmi_level_permitted = kRpcDisallowed
         /\ last.result.list_of_allowed_params =
              last.given.list_of_allowed_params

\* a call that turns a result from disallowed to allowed
C4_Witness ==
  /\ last.op = "CheckPermissions" /\ last.fault = NoFault
  /\ last.given.hmi_level_permitted = kRpcDisallowed
  /\ last.result.hmi_level_permitted = kRpcAllowed
  /\ LastMatching # <<>>

\* the non-null parameters of rows, in row order
RECURSIVE NonNullParameters(_)
NonNullParameters(rows) ==
  IF rows = <<>> THEN <<>>
  ELSE (IF Head(rows).parameter = NULL THEN <<>>
        ELSE <<Head(rows).parameter>>) \o NonNullParameters(Tail(rows))

\* C5: a permitted CheckPermissions adds to list_of_allowed_params the
\* parameters of the matching rows in row order, duplicates kept and null
\* parameters skipped; one matching row with parameter p gives [p].
C5_AllowedParams ==
  (/\ last.op = "CheckPermissions" /\ last.fault = NoFault
   /\ last.result.hmi_level_permitted = kRpcAllowed) =>
    /\ last.result.list_of_allowed_params =
         last.given.list_of_allowed_params \o NonNullParameters(LastMatching)
    /\ (/\ Len(LastMatching) = 1
        /\ LastMatching[1].parameter # NULL
        /\ last.given.list_of_allowed_params = <<>>)
         => last.result.list_of_allowed_params = <<LastMatching[1].parameter>>

\* two groups grant the rpc with the same parameter: it is listed twice,
\* after the parameter of an earlier row
C5_Witness ==
  /\ last.op = "CheckPermissions" /\ last.fault = NoFault
  /\ last.given.list_of_allowed_params = <<>>
  /\ last.result.list_of_allowed_params =
       <<"mainField2", "mainField1", "mainField1">>

Remaining(store) == IgnitionCyclesBeforeExchange(store, NoFault)

\* C10: IncrementIgnitionCycles never increases the value of
\* IgnitionCyclesBeforeExchange, and ResetIgnitionCycles, when its
\* statement executes, brings it to the configured limit.
C10_CadenceMonotonic ==
  [][/\ last'.op = "IncrementIgnitionCycles"
          => Remaining(db') <= Remaining(db)
     /\ (last'.op = "ResetIgnitionCycles" /\ last'.fault = NoFault)
          => Remaining(db') =
               db'.module_config.exchange_after_x_ignition_cycles]_vars

\* the remaining cycles went below the limit by an increment
C10_Witness ==
  /\ last.op = "IncrementIgnitionCycles" /\ last.fault = NoFault
  /\ Remaining(db) < db.module_config.exchange_after_x_ignition_cycles
  /\ db.module_meta.ignition_cycles_since_last_exchange > 0

\* the limit and the counter of the last exchange a cadence call read
LimitRead ==
  IF last.op = "KilometersBeforeExchange"
  THEN db.module_config.exchange_after_x_kilometers
  ELSE db.module_config.exchange_after_x_days

LastRead ==
  IF last.op = "KilometersBeforeExchange"
  THEN db.module_meta.pt_exchanged_at_odometer_x
  ELSE db.module_meta.pt_exchanged_x_days_after_epoch

OutOfOrder(limit, last_, current) ==
  limit < 0 \/ last_ < 0 \/ current < 0 \/ current < last_
    \/ current - last_ > limit

\* C11: KilometersBeforeExchange and DaysBeforeExchange return 0 when the
\* limit, the stored counter or the current counter is negative, when the
\* current counter is below the stored one, or when their difference is
\* above the limit; except that DaysBeforeExchange with a stored counter
\* of 0 returns the limit for every current counter.
C11_Clamp ==
  (last.op \in {"KilometersBeforeExchange", "DaysBeforeExchange"}
     /\ last.fault = NoFault) =>
    IF last.op = "DaysBeforeExchange" /\ LastRead = 0
    THEN last.result = LimitRead
    ELSE OutOfOrder(LimitRead, LastRead, last.current) => last.result = 0

\* the first-ever exchange: a negative current day count, and the limit
\* returned
C11_Witness ==
  /\ last.op = "DaysBeforeExchange" /\ last.fault = NoFault
  /\ LastRead = 0 /\ last.current < 0
  /\ LimitRead > 0 /\ last.result = LimitRead

\* C12: IgnitionCyclesBeforeExchange returns limit - current when
\* 0 <= current <= limit, and 0 when the limit or the current count is
\* negative or the current count is above the limit.
C12_IgnitionCycles ==
  (last.op = "IgnitionCyclesBeforeExchange" /\ last.fault = NoFault) =>
    LET limit == db.module_config.exchange_after_x_ignition_cycles
        current == db.module_meta.ignition_cycles_since_last_exchange
    IN /\ (0 <= current /\ current <= limit)
            => last.result = limit - current
       /\ (limit < 0 \/ current < 0 \/ current > limit)
            => last.result = 0

\* cycles remain: a positive count below the limit
C12_Witness ==
  /\ last.op = "IgnitionCyclesBeforeExchange" /\ last.fault = NoFault
  /\ db.module_meta.ignition_cycles_since_last_exchange > 0
  /\ last.result > 0
  /\ last.result = db.module_config.exchange_after_x_ignition_cycles
                     - db.module_meta.ignition_cycles_since_last_exchange

\* the store whose kilometers are the days of this one
DaysAsKilometers ==
  [db EXCEPT
     !.module_config.exchange_after_x_kilometers =
        db.module_config.exchange_after_x_days,
     !.module_meta.pt_exchanged_at_odometer_x =
        db.module_meta.pt_exchanged_x_days_after_epoch]

\* C13: with limit >= 0, 0 <= last <= current and current - last <= limit,
\* KilometersBeforeExchange returns limit - (current - last); with a stored
\* counter other than 0, DaysBeforeExchange returns what
\* KilometersBeforeExchange returns for the same limit, stored counter and
\* current counter.
C13_Remaining ==
  /\ (last.op = "KilometersBeforeExchange" /\ last.fault = NoFault
        /\ ~OutOfOrder(LimitRead, LastRead, last.current))
       => last.result = LimitRead - (last.current - LastRead)
  /\ (last.op = "DaysBeforeExchange" /\ last.fault = NoFault
        /\ LastRead # 0)
       => last.result =
            KilometersBeforeExchange(DaysAsKilometers, last.current, NoFault)

\* kilometers remain after a stored exchange
C13_Witness ==
  /\ last.op = "KilometersBeforeExchange" /\ last.fault = NoFault
  /\ LastRead > 0 /\ last.current > LastRead
  /\ last.result > 0
  /\ last.result = LimitRead - (last.current - LastRead)

\* C14: IsDBVersionActual, called right after a successful UpdateDBVersion
\* on an initialised store, returns true; and it returns false whenever
\* the stored version is not GetDBVersion(), as is the hash an earlier
\* kCreateSchema text was stored with.
C14_VersionIdentity ==
  [][/\ (/\ last.op = "UpdateDBVersion" /\ last.ret
         /\ last'.op = "IsDBVersionActual" /\ last'.fault = NoFault)
          => last'.result
     /\ (/\ last'.op = "IsDBVersionActual"
         /\ db.module_meta.db_version # GetDBVersion)
          => ~last'.result]_vars

\* the store Init created holds the version UpdateDBVersion wrote
C14_Witness ==
  /\ last.op = "IsDBVersionActual" /\ last.fault = NoFault
  /\ last.created /\ last.result
  /\ db.module_meta.db_version = GetDBVersion

\* C15, as stated: after every Init that returns SUCCESS or EXISTS the
\* stored db_version equals GetDBVersion(), without any further call.
C15_VersionAfterInit ==
  (last.op = "SQLPTRepresentation::Init"
     /\ last.result \in {"SUCCESS", "EXISTS"}) =>
    db.module_meta.db_version = GetDBVersion

\* C15, amended: Init does not write db_version: after an Init that
\* returns SUCCESS or EXISTS the stored db_version is the one a seeded
\* store held before the call, and the seed's 0 in a store the call
\* created; it is GetDBVersion() after a successful UpdateDBVersion.
C15_InitLeavesVersion ==
  [][/\ (/\ last'.op = "SQLPTRepresentation::Init"
         /\ last'.result \in {"SUCCESS", "EXISTS"})
          => db'.module_meta.db_version =
               IF db.schema = "seeded" THEN db.module_meta.db_version
               ELSE 0
     /\ (last'.op = "UpdateDBVersion" /\ last'.ret)
          => db'.module_meta.db_version = GetDBVersion]_vars

\* Init returned EXISTS on the store of an earlier build
C15_Witness ==
  /\ last.op = "SQLPTRepresentation::Init" /\ last.result = "EXISTS"
  /\ db.module_meta.db_version = GenerateHash(EarlierSchemaText)
  /\ db.module_meta.db_version # GetDBVersion

\* every Open of the call fails: the first and each retry
AllOpensFail(c) == \A i \in 1 .. c.attempts + 1 : ~c.opens[i]

\* C16: when every Open fails, Init makes attempts_to_open_policy_db
\* retries after the first Open (the counter of retries equals attempts),
\* returns FAIL and leaves the store as it was; when an Open within the
\* budget succeeds, Init does not fail for the open: the counter is below
\* or at the budget and a store that answers is not refused.
C16_OpenRetry ==
  [][last'.op = "SQLPTRepresentation::Init" =>
       /\ AllOpensFail(last'.call) =>
            /\ last'.result = "FAIL"
            /\ last'.open_counter = last'.call.attempts
            /\ db' = db
       /\ ~AllOpensFail(last'.call) =>
            /\ last'.open_counter <= last'.call.attempts
            /\ \A i \in 1 .. last'.open_counter : ~last'.call.opens[i]
            /\ last'.call.opens[last'.open_counter + 1]
            /\ (/\ last'.call.read_write
                /\ last'.call.integrity = <<"ok">>
                /\ last'.call.fault = NoFault) => last'.result # "FAIL"]_vars

\* three retries after the first Open, all failed
C16_Witness ==
  /\ last.op = "SQLPTRepresentation::Init"
  /\ last.call.attempts = 3 /\ AllOpensFail(last.call)
  /\ last.open_counter = 3 /\ last.result = "FAIL"

\* C17: the first Init on a file never written returns SUCCESS, and every
\* Init after it on the same file returns EXISTS (the store opens and is
\* writable, no statement fails, the integrity check reads "ok").
C17_FirstRun ==
  [][(/\ last'.op = "SQLPTRepresentation::Init"
      /\ ~AllOpensFail(last'.call) /\ last'.call.read_write
      /\ last'.call.fault = NoFault) =>
       /\ db.schema = "none" => last'.result = "SUCCESS"
       /\ (last.created /\ last'.call.integrity = <<"ok">>)
            => last'.result = "EXISTS"]_vars

\* an Init after the one that created the store
C17_Witness ==
  /\ last.op = "SQLPTRepresentation::Init" /\ last.call = NormalCall
  /\ last.created /\ last.result = "EXISTS"
  /\ db.schema = "seeded"

\* C18, as stated: on a store with pages, when a row of kCheckDBIntegrity,
\* the first or a later one, reads other than "ok", Init returns FAIL.
C18_EveryRowOk ==
  [][(/\ last'.op = "SQLPTRepresentation::Init"
      /\ last'.call = [NormalCall EXCEPT
                         !.integrity = last'.call.integrity]
      /\ db.schema # "none"
      /\ \E i \in DOMAIN last'.call.integrity :
            last'.call.integrity[i] # "ok")
       => last'.result = "FAIL"]_vars

\* the first row decides: "ok" first is accepted whatever follows, and
\* another first row is refused
C18_FirstRowDecides ==
  [][(/\ last'.op = "SQLPTRepresentation::Init"
      /\ last'.call = [NormalCall EXCEPT
                         !.integrity = last'.call.integrity]
      /\ db.schema # "none"
      /\ last'.call.integrity # <<>>)
       => (last'.result = "FAIL"
             <=> Head(last'.call.integrity) # "ok")]_vars

\* "ok" came first and another row after it, and Init returned EXISTS
C18_Witness ==
  /\ last.op = "SQLPTRepresentation::Init"
  /\ last.call.integrity = <<"ok", "row 1 missing from index">>
  /\ last.result = "EXISTS"

\* the group row an rpc row belongs to
GroupOf(r) ==
  CHOOSE g \in {db.functional_group[i] : i \in DOMAIN db.functional_group} :
    g.id = r.functional_group_id

\* the levels and parameters gathered for the rpc of a row
GatheredFor(groups, r) == groups[GroupOf(r).name].rpcs.m[r.name]

\* tokens of known enum values are gathered whatever else their row or
\* their table carries
KnownTokensGathered(groups) ==
  \A i \in DOMAIN db.rpc :
    LET r == db.rpc[i]
        level == EnumFromJsonString(HmiLevelToken, r.hmi_level_value)
        param == EnumFromJsonString(ParameterToken, r.parameter)
    IN /\ level.ok =>
            \E k \in DOMAIN GatheredFor(groups, r).hmi_levels :
               GatheredFor(groups, r).hmi_levels[k] = level.v
       /\ param.ok =>
            \E k \in DOMAIN GatheredFor(groups, r).parameters.v :
               GatheredFor(groups, r).parameters.v[k] = param.v

\* C19, as stated: a stored HmiLevel, Parameter, AppHMIType or RequestType
\* token that EnumFromJsonString rejects never fails the load:
\* GatherFunctionalGroupings and GatherApplicationPoliciesSection return
\* true, every other rpc row is gathered and every application is.
C19_UnknownTokenSkipped ==
  /\ (last.op = "GatherFunctionalGroupings" /\ last.fault = NoFault) =>
       /\ last.result.ok
       /\ KnownTokensGathered(last.result.v)
  /\ (last.op = "GatherApplicationPoliciesSection"
        /\ last.fault = NoFault) =>
       /\ last.result.ok
       /\ \A i \in DOMAIN db.application :
            db.application[i].id # kDeviceId =>
              db.application[i].id \in DOMAIN last.result.apps

\* the part of C19 the code keeps: an unknown HmiLevel or Parameter token
\* is passed over and GatherFunctionalGroupings gathers every known token
C19_GroupingsSkipToken ==
  (last.op = "GatherFunctionalGroupings" /\ last.fault = NoFault) =>
    /\ last.result.ok
    /\ KnownTokensGathered(last.result.v)

\* an unknown AppHMIType token: the load returned false and left
\* applications out
C19_Witness ==
  /\ last.op = "GatherApplicationPoliciesSection" /\ last.fault = NoFault
  /\ \E i \in DOMAIN db.app_type : db.app_type[i].name = "FUTURE_TYPE"
  /\ ~last.result.ok
  /\ \E i \in DOMAIN db.application :
        /\ db.application[i].id # kDeviceId
        /\ db.application[i].id \notin DOMAIN last.result.apps

\* the row of application flags the policy, the column not being NULL
Flagged(row, col) == ~IsNull(row, col) /\ row[col]

\* C20: in the document GatherApplicationPoliciesSection gathers, an
\* application whose row is flagged is_default and is not revoked has the
\* string value "default"; and every gathered application has one form
\* only: null (its row is revoked), the string "default", the string
\* "pre_DataConsent", or a structured record.
C20_DefaultIsString ==
  (last.op = "GatherApplicationPoliciesSection" /\ last.fault = NoFault) =>
    /\ \A id \in DOMAIN last.result.apps :
         LET row == kSelectApplicationFull(db, id)
             e == last.result.apps[id]
         IN /\ (Flagged(row, "is_default") /\ ~Flagged(row, "is_revoked"))
                 => (~e.is_null /\ e.predefined_string = kDefaultId)
            /\ e.is_null <=> Flagged(row, "is_revoked")
            /\ e.is_null => e.predefined_string = ""
            /\ e.predefined_string \in {"", kDefaultId, kPreDataConsentId}
    /\ last.result.ok =>
         \A i \in DOMAIN db.application :
           db.application[i].id # kDeviceId =>
             db.application[i].id \in DOMAIN last.result.apps

\* a null, a "default" and a structured application in one document
C20_Witness ==
  /\ last.op = "GatherApplicationPoliciesSection" /\ last.fault = NoFault
  /\ last.result.ok
  /\ {"app1", kPreDataConsentId, "zapp"} \subseteq DOMAIN last.result.apps
  /\ last.result.apps["app1"].is_null
  /\ Flagged(kSelectApplicationFull(db, kPreDataConsentId), "is_default")
  /\ last.result.apps[kPreDataConsentId].predefined_string = kDefaultId
  /\ last.result.apps["zapp"].predefined_string = ""
  /\ ~last.result.apps["zapp"].is_null

\* the loop of GatherApplicationPoliciesSection reaches the i-th row: it
\* returned true, or every row before is revoked or the device row
Reached(i) ==
  \/ last.result.ok
  \/ \A j \in 1 .. i - 1 :
        \/ Flagged(db.application[j], "is_revoked")
        \/ db.application[j].id = kDeviceId

\* C21: GatherApplicationPoliciesSection gathers a row with is_revoked set
\* as a null value, without a string and with no groups, nicknames,
\* AppHMIType or RequestType, whatever its is_default flag and also for
\* the id "device"; the selects of these lists are not made for it (one
\* that would fail does not fail the load).
C21_RevokedFirst ==
  (/\ last.op = "GatherApplicationPoliciesSection"
   /\ last.fault \in {NoFault, <<"prepare", "kSelectRequestTypes">>,
                      <<"prepare", "kSelectApplicationIsDefault">>}) =>
    \A i \in DOMAIN db.application :
      (Flagged(db.application[i], "is_revoked") /\ Reached(i)) =>
        /\ db.application[i].id \in DOMAIN last.result.apps
        /\ last.result.apps[db.application[i].id] =
             [FreshParams EXCEPT !.is_null = TRUE]

\* a revoked row flagged is_default is first in the table, the select of
\* the request types would fail, and the row is gathered as null
C21_Witness ==
  /\ last.op = "GatherApplicationPoliciesSection"
  /\ last.fault = <<"prepare", "kSelectRequestTypes">>
  /\ Flagged(db.application[1], "is_revoked")
  /\ Flagged(db.application[1], "is_default")
  /\ db.application[1].id \in DOMAIN last.result.apps
  /\ last.result.apps[db.application[1].id].is_null

\* the part of a policy table that the rows of select fill
Part(pt, select) ==
  CASE select = "kSelectModuleMeta" -> pt.module_meta
    [] select = "kSelectModuleConfig" ->
         [f \in DOMAIN pt.module_config \
                  {"endpoints", "notifications_per_minute_by_priority",
                   "seconds_between_retries"} |-> pt.module_config[f]]
    [] select = "kSelectEndpoints" -> pt.module_config.endpoints
    [] select = "kSelectNotificationsPerMin" ->
         pt.module_config.notifications_per_minute_by_priority
    [] select = "kSelectSecondsBetweenRetries" ->
         pt.module_config.seconds_between_retries
    [] select = "kSelectAppLevels" -> pt.usage_and_error_counts
    [] select = "kSelectDeviceData" -> pt.device_data
    [] select \in {"kSelectFunctionalGroups", "kSelectAllRpcs"} ->
         pt.functional_groupings
    [] select = "kSelectUserMsgsVersion" -> pt.consumer_friendly_messages
    [] select = "kSelectAppPolicies" -> pt.app_policies_section

\* the same part of the table GenerateSnapshot constructs, before any
\* Gather* call: nothing is assigned
Constructed(select) ==
  CASE select = "kSelectModuleMeta" ->
         [pt_exchanged_at_odometer_x |-> Unset(0),
          pt_exchanged_x_days_after_epoch |-> Unset(0),
          ignition_cycles_since_last_exchange |-> Unset(0)]
    [] select = "kSelectModuleConfig" ->
         [preloaded_pt |-> Unset(FALSE),
          exchange_after_x_ignition_cycles |-> 0,
          exchange_after_x_kilometers |-> 0,
          exchange_after_x_days |-> 0, timeout_after_x_seconds |-> 0,
          vehicle_make |-> Unset(""), vehicle_model |-> Unset(""),
          vehicle_year |-> Unset(""), preloaded_date |-> Unset(""),
          certificate |-> Unset("")]
    [] select = "kSelectSecondsBetweenRetries" -> <<>>
    [] select = "kSelectAppLevels" -> [app_level |-> EmptyMap]
    [] select = "kSelectUserMsgsVersion" ->
         [version |-> "", messages |-> Unset(EmptyMap)]
    [] select = "kSelectAppPolicies" ->
         [apps |-> EmptyMap, device |-> [priority |-> "?"]]
    [] OTHER -> EmptyMap

\* GenerateSnapshot made the seven calls in order, whatever each returned,
\* and returned a document with its seven sections
AllGathered ==
  /\ Len(last.calls) = 7
  /\ \A i \in 1 .. 7 : last.calls[i].call = GatherCalls[i]
  /\ DOMAIN last.table.policy_table =
       {"module_meta", "module_config", "usage_and_error_counts",
        "device_data", "functional_groupings", "consumer_friendly_messages",
        "app_policies_section"}

IdsOf(rows, col) == [i \in DOMAIN rows |-> rows[i][col]]

\* the places of a step in a plan
Places(plan, step) == {i \in DOMAIN plan : plan[i] = step}

\* C23: a SaveApplicationPoliciesSection that returns true has cleared
\* app_group, application and request_type and then written "default" (if
\* in the document), "pre_DataConsent" (if in the document), the device
\* row and every other application, in that order: each application of
\* the document once, the device row once, no other application before
\* "default"; the rows of application are the rows of these writes, in
\* the order of the writes.
C23_PredefinedFirst ==
  (last.op = "Save" /\ last.ret) =>
    LET policies == last.table.policy_table.app_policies_section
        plan == SavePlan(policies)
        ids == DOMAIN policies.apps
    IN /\ \A id \in ids : Cardinality(Places(plan, AppStep(id))) = 1
       /\ Cardinality(Places(plan, DeviceStep)) = 1
       /\ Len(plan) = Cardinality(ids) + 1
       /\ kDefaultId \in ids => plan[1] = AppStep(kDefaultId)
       /\ kPreDataConsentId \in ids =>
            plan[IF kDefaultId \in ids THEN 2 ELSE 1] =
              AppStep(kPreDataConsentId)
       /\ \A i \in DOMAIN plan :
            (plan[i].kind = "app" /\ ~IsPredefinedApp(plan[i].id)) =>
              \E j \in 1 .. i - 1 : plan[j] = DeviceStep
       /\ IdsOf(db.application, "id") = [i \in DOMAIN plan |-> plan[i].id]
       /\ \A i \in DOMAIN db.app_group :
            db.app_group[i].application_id \in ids
       /\ \A i \in DOMAIN db.request_type :
            db.request_type[i].application_id \in ids

\* a document with "default", "pre_DataConsent" and two more applications
\* was saved; the two predefined rows and the device row come first
C23_Witness ==
  /\ last.op = "Save" /\ last.ret
  /\ DOMAIN last.table.policy_table.app_policies_section.apps =
       {"app1", "default", "pre_DataConsent", "zapp"}
  /\ IdsOf(db.application, "id") =
       <<"default", "pre_DataConsent", "device", "app1", "zapp">>

\* the lists of an application's value, in the order SaveSpecificAppPolicy
\* writes them, with the insert each is written by
ListTables == <<"app_group", "nickname", "app_type", "request_type">>
ListStmts ==
  <<"kInsertAppGroup", "kInsertNickname", "kInsertAppType",
    "kInsertRequestType">>

\* store d holds the rows of the k-th list of value app under app_id
HasList(d, app_id, app, k) ==
  CASE k = 1 ->
         \A i \in DOMAIN app.groups :
           (\E g \in DOMAIN d.functional_group :
              d.functional_group[g].name = app.groups[i]) =>
             \E j \in DOMAIN kSelectAppGroups(d, app_id) :
               kSelectAppGroups(d, app_id)[j] = app.groups[i]
    [] k = 2 ->
         \A i \in DOMAIN app.nicknames.v :
           \E j \in DOMAIN d.nickname :
             d.nickname[j] = [application_id |-> app_id,
                              name |-> app.nicknames.v[i]]
    [] k = 3 ->
         \A i \in DOMAIN app.AppHMIType.v :
           \E j \in DOMAIN d.app_type :
             d.app_type[j] =
               [application_id |-> app_id,
                name |-> EnumToJsonString(AppHMITypeToken,
                                          app.AppHMIType.v[i])]
    [] k = 4 ->
         \A i \in DOMAIN app.RequestType.v :
           \E j \in DOMAIN d.request_type :
             d.request_type[j] =
               [application_id |-> app_id,
                request_type |-> EnumToJsonString(RequestTypeToken,
                                                  app.RequestType.v[i])]

\* C24: SaveSpecificAppPolicy inserts the row of the application; for the
\* string "default" it returns what SetDefaultPolicy returns and writes
\* none of the input's groups, nicknames, HMI types and request types (a
\* failing insert of these is not noticed, the groups stored are those of
\* "default"); for every other value (structured, null, the string
\* "pre_DataConsent") it writes the four lists in that order, returns
\* false at the first insert that fails and leaves the later lists
\* unwritten; no other table changes.
C24_DelegateOrLists ==
  [][last'.op = "SaveSpecificAppPolicy" =>
       LET c == last'
           InsertFails == c.fault = <<"prepare", "kInsertApplication">>
           IsDefault == c.app.predefined_string = kDefaultId
       IN /\ \A t \in DOMAIN db \ ({"application", "module_config"} \cup
                                   {ListTables[k] : k \in 1 .. 4}) :
               db'[t] = db[t]
          /\ InsertFails => (~c.ret /\ db' = db)
          /\ ~InsertFails =>
               \E i \in DOMAIN db'.application :
                 db'.application[i].id = c.app_id
          /\ (IsDefault /\ ~InsertFails) =>
               /\ \A k \in 2 .. 4 : db'[ListTables[k]] = db[ListTables[k]]
               /\ c.fault \in {<<"prepare", ListStmts[k]>> : k \in 2 .. 4}
                    => c.ret
               /\ c.fault \in {<<"prepare", "kDeleteAppGroupByApplicationId">>,
                               <<"prepare", "kInsertApplicationFull">>,
                               <<"prepare", "kUpdateIsDefault">>}
                    => ~c.ret
               /\ c.ret =>
                    /\ kSelectAppGroups(db', c.app_id) =
                         kSelectAppGroups(db', kDefaultId)
                    /\ IsDefaultPolicy(db', c.app_id, NoFault)
          /\ (~IsDefault /\ ~InsertFails) =>
               /\ db'.module_config = db.module_config
               /\ \A k \in 1 .. 4 :
                    c.fault = <<"prepare", ListStmts[k]>> =>
                      /\ ~c.ret
                      /\ \A j \in 1 .. k - 1 :
                           HasList(db', c.app_id, c.app, j)
                      /\ \A j \in k .. 4 :
                           db'[ListTables[j]] = db[ListTables[j]]
               /\ c.fault \notin {<<"prepare", ListStmts[k]>> : k \in 1 .. 4}
                    => /\ c.ret
                       /\ \A j \in 1 .. 4 : HasList(db', c.app_id, c.app, j)
  ]_vars

\* a value that is the string "default" and carries a nickname was saved
\* while the insert of nicknames would fail: the call returned true, the
\* nickname is not stored and the groups are those of "default"
C24_Witness ==
  /\ last.op = "SaveSpecificAppPolicy"
  /\ last.app.predefined_string = kDefaultId
  /\ last.app.nicknames.v = <<"Nick">>
  /\ last.fault = <<"prepare", "kInsertNickname">>
  /\ last.ret
  /\ ~HasList(db, "app1", last.app, 2)
  /\ kSelectAppGroups(db, "app1") = <<"Base-4", "DataConsent-2">>
  /\ last.app.groups = <<"DataConsent-2", "Base-4">>

\* the row of app_id carries the values and the NULLs of the row source
\* had, but for the id and the is_default flag (memory_kb and
\* heart_beat_timeout_ms are bound as integers, a NULL as 0)
CopiedFrom(source, row) ==
  /\ \A col \in DOMAIN source \ {"id", "is_default", "nulls"} :
       row[col] = source[col]
  /\ row.nulls \ {"is_default"} =
       source.nulls \ {"is_default", "memory_kb", "heart_beat_timeout_ms"}

\* after a SetDefaultPolicy that returned true the groups of app_id are
\* the groups of "default", its is_default flag is set and its row is the
\* row of "default"
DefaultCopied ==
  LET app_id == last'.app_id
  IN /\ kSelectAppGroups(db', app_id) = kSelectAppGroups(db, kDefaultId)
     /\ IsDefaultPolicy(db', app_id, NoFault)
     /\ CopiedFrom(kSelectApplicationFull(db, kDefaultId),
                   kSelectApplicationFull(db', app_id))

InitRan ==
  /\ last'.op = "SQLPTRepresentation::Init"
  /\ ~AllOpensFail(last'.call) /\ last'.call.read_write

\* the last statements of a call
EndsWith(stmts, tail) ==
  /\ Len(stmts) >= Len(tail)
  /\ SubSeq(stmts, Len(stmts) - Len(tail) + 1, Len(stmts)) = tail

\* C26: Init on a file without pages executes kCreateSchema and then
\* kInsertInitData and returns SUCCESS, the store being seeded; when
\* kCreateSchema fails it returns FAIL and kInsertInitData is not
\* executed; when kInsertInitData fails it returns FAIL.
C26_CreateThenSeed ==
  [][(InitRan /\ db.schema = "none") =>
       LET c == last'.call
       IN /\ StmtFails(c.fault, "kCreateSchema") =>
               /\ last'.result = "FAIL"
               /\ EndsWith(last'.stmts, <<"kCreateSchema">>)
               /\ \A i \in DOMAIN last'.stmts :
                     last'.stmts[i] # "kInsertInitData"
               /\ db' = db
          /\ StmtFails(c.fault, "kInsertInitData") =>
               /\ last'.result = "FAIL"
               /\ EndsWith(last'.stmts, <<"kCreateSchema", "kInsertInitData">>)
               /\ db'.schema = "empty"
          /\ (~StmtFails(c.fault, "kCreateSchema") /\
              ~StmtFails(c.fault, "kInsertInitData")) =>
               /\ last'.result = "SUCCESS"
               /\ EndsWith(last'.stmts, <<"kCreateSchema", "kInsertInitData">>)
               /\ db' = SeedDB
  ]_vars

\* kCreateSchema failed on a file without pages
C26_Witness ==
  /\ last.op = "SQLPTRepresentation::Init"
  /\ last.call.fault = <<"exec", "kCreateSchema">>
  /\ last.result = "FAIL"
  /\ last.stmts = <<"kCheckPgNumber", "kCreateSchema">>
  /\ db.schema = "none"

\* the step is an Init on a store with pages whose integrity check reads
\* "ok"
InitOnSoundStore ==
  /\ InitRan /\ db.schema # "none"
  /\ ~StmtFails(last'.call.fault, "kCheckPgNumber")
  /\ ~PrepareFails(last'.call.fault, "kCheckDBIntegrity")
  /\ last'.call.integrity # <<>> /\ Head(last'.call.integrity) = "ok"

\* kIsFirstRun reads true in the store before the step
ReadsFirstRun ==
  /\ ~StmtFails(last'.call.fault, "kIsFirstRun")
  /\ db.schema = "seeded" /\ db.is_first_run

\* the two branches of Init after an integrity check that reads "ok"
FirstRunBranches ==
  /\ ReadsFirstRun =>
       /\ last'.result = "SUCCESS"
       /\ EndsWith(last'.stmts, <<"kIsFirstRun", "kSetNotFirstRun">>)
  /\ ~ReadsFirstRun =>
       /\ last'.result = "EXISTS"
       /\ \A i \in DOMAIN last'.stmts : last'.stmts[i] # "kSetNotFirstRun"
       /\ db' = db

C28_NotWritable ==
  [][(/\ last'.op = "SQLPTRepresentation::Init"
      /\ ~AllOpensFail(last'.call) /\ ~last'.call.read_write) =>
       /\ last'.result = "FAIL"
       /\ last'.stmts = <<>>
       /\ db' = db]_vars

\* Init refused a seeded store that is not writable
C28_Witness ==
  /\ last.op = "SQLPTRepresentation::Init"
  /\ ~last.call.read_write /\ ~AllOpensFail(last.call)
  /\ last.result = "FAIL" /\ last.stmts = <<>>
  /\ db.schema = "seeded" /\ db.is_first_run

\* the enum values of the tokens stored in column col for the rpc called
\* name of group g, in row order: the tokens that convert
ValuesOf(g, name, col, tokens) ==
  LET rows == SelectSeq(db.rpc,
                        LAMBDA r : /\ r.functional_group_id = g.id
                                   /\ r.name = name
                                   /\ r[col] # NULL
                                   /\ EnumFromJsonString(tokens, r[col]).ok)
  IN [i \in DOMAIN rows |-> EnumFromJsonString(tokens, rows[i][col]).v]

\* the place a value has first in a sequence
FirstPlace(vals, x) ==
  CHOOSE i \in DOMAIN vals :
    vals[i] = x /\ \A j \in 1 .. i - 1 : vals[j] # x

\* list holds each value of vals once, in the order of first occurrence
EachOnceInOrder(list, vals) ==
  /\ \A i, j \in DOMAIN list : list[i] = list[j] => i = j
  /\ {list[i] : i \in DOMAIN list} = {vals[i] : i \in DOMAIN vals}
  /\ \A i, j \in DOMAIN list :
       i < j => FirstPlace(vals, list[i]) < FirstPlace(vals, list[j])

\* C29: GatherFunctionalGroupings returns a map keyed by group name; for
\* each rpc of a group, hmi_levels and parameters hold each stored token
\* that converts to an enum once, in the order of first occurrence, and no
\* token that fails the conversion; the rpcs of a group without rpc rows
\* are set to null.
C29_TokensOnceInOrder ==
  (last.op = "GatherFunctionalGroupings" /\ last.fault = NoFault) =>
    /\ last.result.ok
    /\ DOMAIN last.result.v =
         {db.functional_group[i].name : i \in DOMAIN db.functional_group}
    /\ \A i \in DOMAIN db.functional_group :
         LET g == db.functional_group[i]
             rpcs == last.result.v[g.name].rpcs
             rows == SelectSeq(db.rpc,
                               LAMBDA r : r.functional_group_id = g.id)
         IN /\ rows = <<>> => (rpcs.is_null /\ DOMAIN rpcs.m = {})
            /\ DOMAIN rpcs.m =
                 {rows[k].name : k \in
                    {k \in DOMAIN rows :
                       \/ ValuesOf(g, rows[k].name, "hmi_level_value",
                                   HmiLevelToken) # <<>>
                       \/ ValuesOf(g, rows[k].name, "parameter",
                                   ParameterToken) # <<>>}}
            /\ \A name \in DOMAIN rpcs.m :
                 /\ EachOnceInOrder(
                      rpcs.m[name].hmi_levels,
                      ValuesOf(g, name, "hmi_level_value", HmiLevelToken))
                 /\ EachOnceInOrder(
                      rpcs.m[name].parameters.v,
                      ValuesOf(g, name, "parameter", ParameterToken))

\* an rpc stored with one level in two rows and with a level that does not
\* convert was gathered with that level once and its parameters in row order
C29_Witness ==
  /\ last.op = "GatherFunctionalGroupings" /\ last.fault = NoFault
  /\ \E i, j \in DOMAIN db.rpc :
       /\ i < j
       /\ db.rpc[i].functional_group_id = db.rpc[j].functional_group_id
       /\ db.rpc[i].name = db.rpc[j].name
       /\ db.rpc[i].hmi_level_value = db.rpc[j].hmi_level_value
       /\ EnumFromJsonString(HmiLevelToken, db.rpc[i].hmi_level_value).ok
       /\ \E k \in DOMAIN db.rpc :
            /\ db.rpc[k].functional_group_id = db.rpc[i].functional_group_id
            /\ db.rpc[k].name = db.rpc[i].name
            /\ db.rpc[k].hmi_level_value = "FUTURE_LEVEL"
       /\ GatheredFor(last.result.v, db.rpc[i]).hmi_levels = <<"HL_FULL">>
       /\ GatheredFor(last.result.v, db.rpc[i]).parameters.v =
            <<"P_MAINFIELD2", "P_MAINFIELD1">>

\* the larger of two numbers
Max(a, b) == IF a >= b THEN a ELSE b

\* the number of rows of a table that are the row given
CountOf(rows, row) == Cardinality({i \in DOMAIN rows : rows[i] = row})

\* C30: a SaveRpcs(group_id, rpcs) that returns true has added, for each
\* rpc, one row per hmi_level without a parameter when the parameters of
\* the rpc are empty or unset, and one row per hmi_level and parameter
\* otherwise, that is |hmi_levels| * max(1, |parameters|) rows, all with
\* group_id; the rows stored before are kept.
C30_RowsPerRpc ==
  [][(last'.op = "SaveRpcs" /\ last'.ret) =>
       LET group_id == last'.group_id
           rpcs == last'.rpcs.m
           added == SubSeq(db'.rpc, Len(db.rpc) + 1, Len(db'.rpc))
           Row(name, hmi, parameter) ==
             [name |-> name,
              hmi_level_value |-> EnumToJsonString(HmiLevelToken, hmi),
              parameter |-> parameter, functional_group_id |-> group_id]
       IN /\ Len(db'.rpc) >= Len(db.rpc)
          /\ SubSeq(db'.rpc, 1, Len(db.rpc)) = db.rpc
          /\ \A t \in DOMAIN db \ {"rpc"} : db'[t] = db[t]
          /\ \A i \in DOMAIN added :
               /\ added[i].functional_group_id = group_id
               /\ added[i].name \in DOMAIN rpcs
          /\ \A name \in DOMAIN rpcs :
               LET levels == rpcs[name].hmi_levels
                   parameters == rpcs[name].parameters.v
                   rows == SelectSeq(added, LAMBDA r : r.name = name)
               IN /\ Len(rows) = Len(levels) * Max(1, Len(parameters))
                  /\ \A l \in DOMAIN levels :
                       IF parameters = <<>>
                       THEN CountOf(rows, Row(name, levels[l], NULL)) = 1
                       ELSE \A k \in DOMAIN parameters :
                              CountOf(rows,
                                      Row(name, levels[l],
                                          EnumToJsonString(ParameterToken,
                                                           parameters[k])))
                                = 1
  ]_vars

\* an rpc with two levels and set, empty parameters and an rpc without
\* levels were saved: two rows without parameter, none for the other
C30_Witness ==
  /\ last.op = "SaveRpcs" /\ last.ret
  /\ "Show" \in DOMAIN last.rpcs.m
  /\ last.rpcs.m["Show"].hmi_levels = <<"HL_NONE", "HL_FULL">>
  /\ last.rpcs.m["Show"].parameters = Set(<<>>)
  /\ Len(db.rpc) >= 2
  /\ db.rpc[Len(db.rpc)] =
       [name |-> "Show", hmi_level_value |-> "FULL", parameter |-> NULL,
        functional_group_id |-> last.group_id]
  /\ db.rpc[Len(db.rpc) - 1] =
       [name |-> "Show", hmi_level_value |-> "NONE", parameter |-> NULL,
        functional_group_id |-> last.group_id]

\* the values of one column of a table
Column(rows, col) == {rows[i][col] : i \in DOMAIN rows}

\* the language codes of the message types given
CodesOf(messages, types) == UNION {DOMAIN messages[t].languages : t \in types}

\* the message types up to the first one that has a language
TypesToFirstLanguage(messages) ==
  LET types == KeysIn(MessageOrder, messages)
      first == {i \in DOMAIN types :
                  /\ messages[types[i]].languages # EmptyMap
                  /\ \A j \in 1..(i - 1) :
                       messages[types[j]].languages = EmptyMap}
  IN {types[j] : j \in {j \in DOMAIN types : \E i \in first : j <= i}}

\* C31: SaveConsumerFriendlyMessages of an input whose messages container
\* is set deletes every stored message string, stores the version of the
\* input and adds every message type and every language code of the
\* input; it writes no message string; and it returns false at the first
\* statement that fails, the writes before it made and none after it.
C31_ReplaceMessages ==
  [][(last'.op = "SaveConsumerFriendlyMessages"
        /\ last'.messages.messages.init) =>
       LET messages == last'.messages.messages.v
           version == last'.messages.version
           fault == last'.fault
           types == DOMAIN messages
           codes == CodesOf(messages, types)
           cleared == [db EXCEPT !.message = <<>>]
           versioned == [cleared EXCEPT !.version = version]
           Others(d) == [t \in DOMAIN d \ {"message_type", "language"} |->
                           d[t]]
       IN CASE StmtFails(fault, "kDeleteMessageString") ->
                 ~last'.ret /\ db' = db
            [] StmtFails(fault, "kUpdateVersion") ->
                 ~last'.ret /\ db' = cleared
            [] StmtFails(fault, "kInsertMessageType") /\ types # {} ->
                 ~last'.ret /\ db' = versioned
            [] StmtFails(fault, "kInsertLanguage") /\ codes # {} ->
                 /\ ~last'.ret
                 /\ Others(db') = Others(versioned)
                 /\ db'.language = db.language
                 /\ Column(db'.message_type, "name") =
                      Column(db.message_type, "name")
                        \cup TypesToFirstLanguage(messages)
            [] OTHER ->
                 /\ last'.ret
                 /\ Others(db') = Others(versioned)
                 /\ db'.message = <<>>
                 /\ db'.version = version
                 /\ Column(db'.message_type, "name") =
                      Column(db.message_type, "name") \cup types
                 /\ Column(db'.language, "code") =
                      Column(db.language, "code") \cup codes
  ]_vars

\* a store holding a message string in en-us was given one type in two
\* languages: the string is gone, both codes and the version are stored
C31_Witness ==
  /\ last.op = "SaveConsumerFriendlyMessages" /\ last.ret
  /\ last.messages.messages.init
  /\ DOMAIN last.messages.messages.v = {"AppPermissions"}
  /\ last.messages.version = "v3"
  /\ db.version = "v3"
  /\ db.message = <<>>
  /\ db.language = <<[code |-> "en-us"], [code |-> "de-de"]>>
  /\ db.message_type = <<[name |-> "AppPermissions"]>>
  /\ db.application = SeedDB.application

\* the statements an operation is made of, in the order of its code
StepsOf(op) ==
  IF op = "Clear" THEN <<"kDeleteData", "kInsertInitData">>
  ELSE <<"kDropSchema", "kCreateSchema", "kInsertInitData">>

\* C32: Clear executes kDeleteData then kInsertInitData, RefreshDB executes
\* kDropSchema, kCreateSchema, kInsertInitData; each executes its
\* statements in that order up to the first that fails, returns true only
\* if none failed, and after returning true leaves exactly the seed table
\* in the store.  A failing first statement leaves the store as it was.
C32_StepsInOrder ==
  [][last'.op \in {"Clear", "RefreshDB"} =>
       LET steps == StepsOf(last'.op)
           stmts == last'.stmts
           n == Len(stmts)
       IN /\ n \in 1..Len(steps)
          /\ stmts = SubSeq(steps, 1, n)
          /\ \A i \in 1..(n - 1) : ~StmtFails(last'.fault, stmts[i])
          /\ last'.ret = (n = Len(steps) /\ ~StmtFails(last'.fault, stmts[n]))
          /\ ~last'.ret => StmtFails(last'.fault, stmts[n])
          /\ last'.ret =>
               /\ db' = SeedDB
               /\ GenerateSnapshot(db', NoFault)
                    = GenerateSnapshot(SeedDB, NoFault)
          /\ StmtFails(last'.fault, steps[1]) => db' = db
          /\ (~last'.ret /\ n > 1) => db'.schema # "seeded"
  ]_vars

\* a Clear of a store holding groups and applications left the seed
C32_Witness ==
  /\ last.op = "Clear" /\ last.ret
  /\ last.stmts = <<"kDeleteData", "kInsertInitData">>
  /\ db = SeedDB
  /\ \E g \in DOMAIN first_id : first_id[g].id # 0

\* the retries of a call whose Open succeeded
GoodRetries(c) == {k \in 1 .. c.attempts : c.opens[k + 1]}

\* C33: when the first Open of Init succeeds there is no retry and no
\* sleep and the retry counter is 0; when it fails and a retry within
\* attempts_to_open_policy_db succeeds, the loop stops at the first such
\* retry: the counter is its 1-based index, at most the budget, every
\* retry was preceded by one sleep of open_attempt_timeout_ms * 1000, and
\* Init goes on to the read/write check (FAIL without a statement for a
\* store that is not writable, kCheckPgNumber first for one that is).
C33_RetryUntilOpen ==
  [][last'.op = "SQLPTRepresentation::Init" =>
       LET c == last'.call
       IN /\ Len(last'.sleeps) = last'.open_counter
          /\ \A i \in DOMAIN last'.sleeps :
               last'.sleeps[i] = c.open_attempt_timeout_ms * 1000
          /\ c.opens[1] => (last'.open_counter = 0 /\ last'.sleeps = <<>>)
          /\ (~c.opens[1] /\ GoodRetries(c) # {}) =>
               /\ last'.open_counter \in GoodRetries(c)
               /\ \A k \in GoodRetries(c) : last'.open_counter <= k
               /\ last'.open_counter <= c.attempts
               /\ IF c.read_write
                  THEN /\ last'.stmts # <<>>
                       /\ last'.stmts[1] = "kCheckPgNumber"
                  ELSE /\ last'.result = "FAIL"
                       /\ last'.stmts = <<>>
                       /\ db' = db]_vars

\* the first Open and the first retry failed, the second retry opened a
\* writable store: two sleeps of 65535000, and Init did not fail
C33_Witness ==
  /\ last.op = "SQLPTRepresentation::Init"
  /\ last.call.opens = <<FALSE, FALSE, TRUE, TRUE>>
  /\ last.call.attempts = 3
  /\ last.call.read_write
  /\ last.open_counter = 2
  /\ last.sleeps = <<65535000, 65535000>>
  /\ last.result # "FAIL"

\* the statements of a sequence
Stmts(stmts) == {stmts[i] : i \in DOMAIN stmts}

\* the store has pages, kCheckPgNumber read their number and
\* kCheckDBIntegrity returned a row
Checked(store, c) ==
  /\ store.schema # "none"
  /\ ~StmtFails(c.fault, "kCheckPgNumber")
  /\ ~PrepareFails(c.fault, "kCheckDBIntegrity")
  /\ c.integrity # <<>>

\* C34: an Init that found a positive page count and got a row from
\* kCheckDBIntegrity returns SUCCESS, EXISTS or FAIL without executing
\* kCreateSchema or kInsertInitData, and leaves every row of the store
\* but the first-run flag as it was; the two statements are executed
\* only by an Init that found no page, could not prepare or step a
\* pragma, or got no row from the integrity check.
C34_CheckedStoreKept ==
  [][(/\ last'.op = "SQLPTRepresentation::Init"
      /\ ~AllOpensFail(last'.call) /\ last'.call.read_write) =>
       /\ Checked(db, last'.call) =>
            /\ Stmts(last'.stmts) \cap {"kCreateSchema", "kInsertInitData"}
                 = {}
            /\ last'.result \in {"SUCCESS", "EXISTS", "FAIL"}
            /\ [db' EXCEPT !.is_first_run = db.is_first_run] = db
       /\ ~Checked(db, last'.call) => "kCreateSchema" \in Stmts(last'.stmts)
       /\ "kInsertInitData" \in Stmts(last'.stmts) =>
            /\ ~Checked(db, last'.call)
            /\ "kCreateSchema" \in Stmts(last'.stmts)]_vars

\* a seeded store of an earlier build whose integrity check answered a
\* damaged row: FAIL after the two pragmas, the store as it was
C34_Witness ==
  /\ last.op = "SQLPTRepresentation::Init"
  /\ last.call.integrity = <<"row 1 missing from index", "ok">>
  /\ last.result = "FAIL"
  /\ last.stmts = <<"kCheckPgNumber", "kCheckDBIntegrity">>
  /\ db.schema = "seeded"
  /\ db.module_meta.db_version = GenerateHash(EarlierSchemaText)

\* an application of the document is given as the string "default"
HasDefaultString(table) ==
  \E a \in DOMAIN table.policy_table.app_policies_section.apps :
     table.policy_table.app_policies_section.apps[a].predefined_string
       = kDefaultId

\* C35: after a Save that returned true the stored preloaded_pt is true
\* exactly if the preloaded_pt of the document's module_config is set and
\* true, also for a document with applications given as the string
\* "default": the false SetDefaultPolicy wrote while the applications were
\* saved is overwritten by SaveModuleConfig.
C35_PreloadedFromConfig ==
  (last.op = "Save" /\ last.ret) =>
    LET preloaded_pt == last.table.policy_table.module_config.preloaded_pt
    IN db.module_config.preloaded_pt = (preloaded_pt.init /\ preloaded_pt.v)

\* a preloaded document with applications inheriting "default" was saved
\* and the store is preloaded
C35_Witness ==
  /\ last.op = "Save" /\ last.ret /\ ~last.snapshot
  /\ HasDefaultString(last.table)
  /\ last.table.policy_table.module_config.preloaded_pt = Set(TRUE)
  /\ db.module_config.preloaded_pt
  /\ \E i \in DOMAIN db.application :
       /\ db.application[i].id = "app1"
       /\ db.application[i].is_default

\* C36: a Save, whether it returns true or false, leaves the stored
\* flag_update_required and db_version as they were, so UpdateRequired and
\* IsDBVersionActual return after it what they returned before it; of
\* module_meta a Save writes the two exchange columns and the ignition
\* counter only.
C36_SaveKeepsFlagAndVersion ==
  [][last'.op = "Save" =>
       /\ db'.module_meta.flag_update_required
            = db.module_meta.flag_update_required
       /\ db'.module_meta.db_version = db.module_meta.db_version
       /\ UpdateRequired(db', NoFault) = UpdateRequired(db, NoFault)
       /\ IsDBVersionActual(db', NoFault) = IsDBVersionActual(db, NoFault)
       /\ last'.ret =>
            LET meta == last'.table.policy_table.module_meta
            IN db'.module_meta =
                 [db.module_meta EXCEPT
                    !.pt_exchanged_at_odometer_x =
                      meta.pt_exchanged_at_odometer_x.v,
                    !.pt_exchanged_x_days_after_epoch =
                      meta.pt_exchanged_x_days_after_epoch.v,
                    !.ignition_cycles_since_last_exchange =
                      meta.ignition_cycles_since_last_exchange.v]
  ]_vars

\* a store flagged for an update and of the current schema version took
\* a Save that changed its ignition counter
C36_Witness ==
  /\ last.op = "Save" /\ last.ret
  /\ db.module_meta.flag_update_required
  /\ UpdateRequired(db, NoFault)
  /\ IsDBVersionActual(db, NoFault)
  /\ db.module_meta.ignition_cycles_since_last_exchange = 1

\* the operations that only read the store
Queries ==
  {"CheckPermissions", "IgnitionCyclesBeforeExchange",
   "KilometersBeforeExchange", "DaysBeforeExchange", "TimeoutResponse",
   "GetPriority", "UpdateRequired", "IsDBVersionActual", "GenerateSnapshot"}

\* C37: CheckPermissions, the three cadence queries, TimeoutResponse,
\* GetPriority, UpdateRequired, IsDBVersionActual and GenerateSnapshot
\* leave the store as it was, whether their select fails or not; and a
\* CheckPermissions whose select cannot be prepared leaves the caller's
\* result as it was given.
C37_QueriesReadOnly ==
  [][last'.op \in Queries =>
       /\ db' = db
       /\ (last'.op = "CheckPermissions"
             /\ PrepareFails(last'.fault, "kSelectRpc")) =>
            last'.result = last'.given]_vars

\* a CheckPermissions that could not prepare its select was given a
\* result left by an earlier call and returned it as given
C37_Witness ==
  /\ last.op = "CheckPermissions"
  /\ last.fault = <<"prepare", "kSelectRpc">>
  /\ last.given.hmi_level_permitted = kRpcAllowed
  /\ last.given.list_of_allowed_params = <<"earlier">>
  /\ last.result = last.given
  /\ db.rpc # <<>>

\* the limit a cadence call read
CadenceLimit ==
  CASE last.op = "IgnitionCyclesBeforeExchange" ->
         db.module_config.exchange_after_x_ignition_cycles
    [] last.op = "KilometersBeforeExchange" ->
         db.module_config.exchange_after_x_kilometers
    [] OTHER -> db.module_config.exchange_after_x_days

CadenceCalls ==
  {"IgnitionCyclesBeforeExchange", "KilometersBeforeExchange",
   "DaysBeforeExchange"}

\* C38, as stated: IgnitionCyclesBeforeExchange, KilometersBeforeExchange
\* and DaysBeforeExchange return no negative value and no value above the
\* stored limit, for every stored limit and counter and every argument,
\* negative limits and DaysBeforeExchange with a stored counter of 0
\* included.
C38_WithinZeroAndLimit ==
  last.op \in CadenceCalls =>
    (0 <= last.result /\ last.result <= CadenceLimit)

\* C38 (amended): the three functions return a value from 0 to the
\* stored limit when the limit is not negative; with a negative limit
\* they return 0, except that DaysBeforeExchange with a stored counter of
\* 0 returns the limit, negative as it is.  Evaluated on limits, counters
\* and arguments up to the ends of the range of an int, so that no
\* subtraction overflows.
C38_ClampedUnlessFirstExchange ==
  last.op \in CadenceCalls =>
    IF CadenceLimit >= 0
    THEN 0 <= last.result /\ last.result <= CadenceLimit
    ELSE IF /\ last.op = "DaysBeforeExchange" /\ last.fault = NoFault
            /\ db.module_meta.pt_exchanged_x_days_after_epoch = 0
         THEN last.result = CadenceLimit
         ELSE last.result = 0

\* DaysBeforeExchange on a store with a negative limit and no exchange
\* yet returned a negative number of days
C38_Witness ==
  /\ last.op = "DaysBeforeExchange" /\ last.fault = NoFault
  /\ db.module_config.exchange_after_x_days = -1
  /\ db.module_meta.pt_exchanged_x_days_after_epoch = 0
  /\ last.current = 1
  /\ last.result = -1

\* a long int from 0 to 2^31 - 1
NonNegativeInt(id) == ~id.neg /\ id.hi < Half \div 2

\* C39, as stated: the id SaveFunctionalGroupings binds for a group name
\* is from 0 to 2^31 - 1 for every name, a name whose hash is the smallest
\* 32-bit integer included, and two saves of a name bind the same id.
C39_IdNonNegative ==
  [][last'.op = "SaveFunctionalGroupings" =>
       /\ ~last'.trap
       /\ NonNegativeInt(last'.id)
       /\ (last.op = "SaveFunctionalGroupings" /\ last.name = last'.name)
            => last'.id = last.id]_vars

\* for every name whose hash is not the smallest int the id bound is the
\* magnitude of the hash, from 0 to 2^31 - 1, and the same at every save
\* of the name
C39_IdIsMagnitude ==
  [][(last'.op = "SaveFunctionalGroupings"
        /\ last'.hash # -2147483647 - 1) =>
       /\ ~last'.trap
       /\ NonNegativeInt(last'.id)
       /\ last'.id = Long(Abs(last'.hash))
       /\ (last.op = "SaveFunctionalGroupings" /\ last.name = last'.name)
            => last'.id = last.id]_vars

\* the name "ewmju2a", whose hash is the smallest int, was bound a
\* negative id
C39_Witness ==
  /\ last.op = "SaveFunctionalGroupings"
  /\ last.name = <<101, 119, 109, 106, 117, 50, 97>>
  /\ last.hash = -2147483647 - 1
  /\ ~last.trap
  /\ last.id.neg

====
